---- MODULE Spec2Model ----
(***************************************************************************)
(* Systems of operator (differential / difference) polynomials:            *)
(* dalgebra.diff_polynomial.diff_polynomial_system.RWOSystem and the older *)
(* dalgebra.differential_polynomial.DifferentialSystem.                    *)
(*                                                                         *)
(* A polynomial is modelled by its support: the set of its monomials, a    *)
(* monomial being the set of triples <<family, index, exponent>> of the    *)
(* indexed variables family_index it contains (exponent >= 1).  The empty  *)
(* monomial is the constant term, the empty polynomial is zero.  The ring  *)
(* operator acts as family_k |-> family_(k+1) with constant coefficients.  *)
(*                                                                         *)
(* Python indices are kept 0-based in every interface; sequences of the    *)
(* model are 1-based, so equation i of the code is equations[i+1].         *)
(***************************************************************************)
EXTENDS Integers, Sequences, FiniteSets, TLC

VARIABLES heap, last, solver

vars == <<heap, last, solver>>

(***************************************************************************)
(* Bounds of the model.                                                    *)
(***************************************************************************)
MaxExt == 1        \* largest component of a bound vector passed by a caller
MaxHeap == 3       \* largest number of system objects alive in one run
MaxBound == 2      \* largest bound_L passed to diff_resultant

(***************************************************************************)
(* Generic helpers.                                                        *)
(***************************************************************************)
Range(s) == {s[i] : i \in 1..Len(s)}

Max2(a, b) == IF a >= b THEN a ELSE b

RECURSIVE SeqSum(_)
SeqSum(s) == IF s = <<>> THEN 0 ELSE Head(s) + SeqSum(Tail(s))

RECURSIVE Flatten(_)
Flatten(ss) == IF ss = <<>> THEN <<>> ELSE Head(ss) \o Flatten(Tail(ss))

(***************************************************************************)
(* Polynomials (supports).                                                 *)
(***************************************************************************)
Var(f, k) == {<<f, k, 1>>}                 \* the monomial f_k
Sq(f, k) == {<<f, k, 2>>}                  \* the monomial f_k^2
Times(m1, m2) == m1 \cup m2                \* product of monomials in distinct variables
One == {}                                  \* the constant monomial

\* The indexed variables <<family, index>> occurring in a polynomial.
variables_of(p) == {<<t[1], t[2]>> : t \in UNION p}

\* Degree of a monomial in the indexed variables of the families in fams.
RECURSIVE mono_degree(_, _)
mono_degree(m, fams) ==
    IF m = {} THEN 0
    ELSE LET t == CHOOSE x \in m : TRUE
         IN (IF t[1] \in fams THEN t[3] ELSE 0) + mono_degree(m \ {t}, fams)

\* ring.derivation / shift on one polynomial: family_k |-> family_(k+1).
apply_operator(p) == {{<<t[1], t[2] + 1, t[3]>> : t \in m} : m \in p}

\* RWOPolynomial.operation(times) / DiffPolynomial.derivative(times).
RECURSIVE operation(_, _)
operation(p, times) ==
    IF times = 0 THEN p
    ELSE IF times > 1 THEN apply_operator(operation(p, times - 1))
    ELSE apply_operator(p)

\* equ.order(gen): the largest index of family gen in p, -1 when absent.
order_in(p, gen) ==
    LET ks == {x[2] : x \in {y \in variables_of(p) : y[1] = gen}}
    IN IF ks = {} THEN -1 ELSE CHOOSE k \in ks : \A j \in ks : j <= k

(***************************************************************************)
(* Small library helpers standing for Python / Sage built-ins.             *)
(***************************************************************************)
NoValue == <<>>                  \* Python None, as an option: <<>> or <<x>>

\* the exception that leaves a loop over calls: that of the first call raising
FirstRaisedOf(results) ==
    LET bad == {j \in 1..Len(results) : results[j].raised # "none"}
    IN IF bad = {} THEN "none"
       ELSE results[CHOOSE j \in bad : \A k \in bad : j <= k].raised

EmptyDict == [k \in {} |-> 0]    \* {}

IndexOf(seq, x) == CHOOSE i \in 1..Len(seq) : seq[i] = x /\ \A j \in 1..(i - 1) : seq[j] # x

\* list.sort() of a set of indexed variables: a later generator of the ring
\* sorts before an earlier one, a lower index before a higher one.
var_less(gens, a, b) ==
    \/ IndexOf(gens, a[1]) > IndexOf(gens, b[1])
    \/ a[1] = b[1] /\ a[2] < b[2]

RECURSIVE sorted_vars(_, _)
sorted_vars(gens, S) ==
    IF S = {} THEN <<>>
    ELSE LET a == CHOOSE x \in S : \A y \in S \ {x} : var_less(gens, x, y)
         IN <<a>> \o sorted_vars(gens, S \ {a})

(***************************************************************************)
(* RWOSystem: construction and accessors.                                  *)
(***************************************************************************)
\* __init__ that lists every generator among the parameters
RWOSystem_init_all_parameters(equations, parent, variables) ==
    LET str_vars == IF variables = NoValue THEN <<>> ELSE variables[1]
    IN IF \E i \in 1..Len(str_vars) : str_vars[i] \notin Range(parent)
       THEN [raised |-> "ValueError", obj |-> NoValue]
       ELSE [raised |-> "none",
             obj |-> <<[equations |-> equations,
                        parent |-> parent,
                        variables |-> IF variables = NoValue THEN parent ELSE str_vars,
                        parameters |-> parent,
                        CACHED_SP1 |-> EmptyDict,
                        CACHED_RES |-> NoValue]>>]

\* RWOSystem.__init__(equations, parent, variables); parent is the sequence
\* of generator names of the common ring, variables is None or a list of names.
RWOSystem_init(equations, parent, variables) ==
    LET gens == parent
        str_vars == IF variables = NoValue THEN <<>> ELSE variables[1]
        invalid == \E i \in 1..Len(str_vars) : str_vars[i] \notin Range(gens)
        dvars == IF variables = NoValue THEN gens ELSE str_vars
    IN IF invalid
       THEN [raised |-> "ValueError", obj |-> NoValue]
       ELSE [raised |-> "none",
             obj |-> <<[equations |-> equations,
                        parent |-> parent,
                        variables |-> dvars,
                        parameters |-> SelectSeq(gens, LAMBDA g : g \notin Range(dvars)),
                        CACHED_SP1 |-> EmptyDict,
                        CACHED_RES |-> NoValue]>>]

size(s) == Len(s.equations)

\* RWOSystem.equation(index) for a pair index (i, n), the form that
\* extend_by_operation uses, and for a plain index.
equation_pair(s, i, n) == operation(s.equations[i + 1], n)
equation_plain(s, i) == s.equations[i + 1]

\* algebraic_variables() without the filter on the families
algebraic_variables_unfiltered(s) ==
    LET all_vars == UNION {variables_of(s.equations[i]) : i \in 1..size(s)}
    IN sorted_vars(s.parent, all_vars)

\* RWOSystem.algebraic_variables(): sorted tuple of the indexed variables that
\* occur in some equation and belong to a family of self.variables.
algebraic_variables(s) ==
    LET all_vars == UNION {variables_of(s.equations[i]) : i \in 1..size(s)}
        filtered == {el \in all_vars : \E g \in Range(s.variables) : el[1] = g}
    IN sorted_vars(s.parent, filtered)

\* max_orders of algebraic_equations: per generator, the largest order over
\* the equations (-1 when the family is absent everywhere).
max_orders(s) ==
    [i \in 1..Len(s.parent) |->
        LET os == {order_in(s.equations[j], s.parent[i]) : j \in 1..size(s)}
        IN CHOOSE o \in os : \A q \in os : q <= o]

\* RWOSystem.algebraic_equations(): the equations collapsed into a polynomial
\* ring whose generators are family_0..family_max for each main family, over
\* the polynomial ring in the same range of every parameter family.
algebraic_equations(s) ==
    LET mo == max_orders(s)
        gens_of(keep) ==
            UNION {{<<s.parent[i], j>> : j \in 0..mo[i]} :
                   i \in {k \in 1..Len(s.parent) : (s.parent[k] \in Range(s.variables)) = keep}}
    IN [variables |-> sorted_vars(s.parent, gens_of(TRUE)),
        parameters |-> sorted_vars(s.parent, gens_of(FALSE)),
        equs |-> s.equations]

\* polynomial.is_homogeneous() in the collapsed ring: every monomial has the
\* same total degree in the ring's generators (the main indexed variables).
poly_is_homogeneous(p, ring_vars) ==
    \A m1 \in p : \A m2 \in p :
        mono_degree(m1, {v[1] : v \in Range(ring_vars)})
            = mono_degree(m2, {v[1] : v \in Range(ring_vars)})

is_homogeneous(s) ==
    LET ae == algebraic_equations(s)
    IN \A i \in 1..Len(ae.equs) : poly_is_homogeneous(ae.equs[i], ae.variables)

\* RWOPolynomial.is_linear(variables): degree at most one in the families.
poly_is_linear(p, fams) == \A m \in p : mono_degree(m, fams) <= 1

\* RWOSystem.is_linear(variables=None)
is_linear(s, variables) ==
    LET vs == IF variables = NoValue THEN s.variables ELSE variables[1]
    IN \A i \in 1..size(s) : poly_is_linear(s.equations[i], Range(vs))

\* is_sp2 without the homogeneous case (as DifferentialSystem.is_sp2 had it)
is_sp2_non_homogeneous_only(s) == Len(algebraic_variables(s)) = size(s) - 1

\* RWOSystem.is_sp2()
is_sp2(s) ==
    IF is_homogeneous(s)
    THEN Len(algebraic_variables(s)) = size(s)
    ELSE Len(algebraic_variables(s)) = size(s) - 1

(***************************************************************************)
(* extend_by_operation (alias build_sp1).                                  *)
(*                                                                         *)
(* A caller's bound vector is a Python value: kind says whether it is a    *)
(* list, a tuple or something else, and each component is a rational with  *)
(* denominator Den, stored as its numerator, so that non-integers can be   *)
(* passed (1 stands for 1/2, 2 for the integer 1, -2 for -1).              *)
(***************************************************************************)
Den == 2

InZZ(el) == el % Den = 0          \* el in ZZ
IntOf(el) == el \div Den          \* the integer an element of ZZ is

dict_set(d, key, value) ==
    [k \in (DOMAIN d) \cup {key} |-> IF k = key THEN value ELSE d[k]]

\* the extension with range(Ls[i]) in place of range(Ls[i]+1)
sp1_equations_one_short(self, key) ==
    Flatten([i \in 1..size(self) |->
                [k \in 1..key[i] |-> equation_pair(self, i - 1, k - 1)]])

\* The equations extend_by_operation builds for the integer vector key:
\* sum([[self.equation((i,k)) for k in range(Ls[i]+1)] for i in range(size)], [])
sp1_equations(self, key) ==
    Flatten([i \in 1..size(self) |->
                [k \in 1..(key[i] + 1) |-> equation_pair(self, i - 1, k - 1)]])

\* any(not el in ZZ or el < 0 for el in Ls), without the check el in ZZ
not_non_negative_integers_no_ZZ(Ls) == \E i \in 1..Len(Ls) : Ls[i] < 0

\* any(not el in ZZ or el < 0 for el in Ls)
not_non_negative_integers(Ls) == \E i \in 1..Len(Ls) : ~InZZ(Ls[i]) \/ Ls[i] < 0

\* a cache lookup that never finds the key
in_cache_never(cache, key) == FALSE

\* Ls in self.__CACHED_SP1
in_cache(cache, key) == key \in DOMAIN cache

\* an extension that replaces the equations of the receiver and returns it
extend_by_operation_in_place(h, r, kind, Ls) ==
    LET self == h[r] IN
    IF kind \notin {"list", "tuple"}
    THEN [heap |-> h, raised |-> "TypeError", ret |-> 0]
    ELSE IF not_non_negative_integers(Ls)
    THEN [heap |-> h, raised |-> "ValueError", ret |-> 0]
    ELSE LET key == [i \in 1..Len(Ls) |-> IntOf(Ls[i])] IN
         IF in_cache(self.CACHED_SP1, key)
         THEN [heap |-> h, raised |-> "none", ret |-> self.CACHED_SP1[key]]
         ELSE IF Len(key) < size(self)
         THEN [heap |-> h, raised |-> "IndexError", ret |-> 0]
         ELSE [heap |-> [h EXCEPT ![r].equations = sp1_equations(self, key),
                                  ![r].CACHED_SP1 = dict_set(@, key, r)],
               raised |-> "none",
               ret |-> r]

\* RWOSystem.extend_by_operation(Ls) called on object r of heap h.
\* Result: the heap afterwards, the exception raised ("none" when it
\* returns) and the object returned (0 when it raises).
extend_by_operation(h, r, kind, Ls) ==
    LET self == h[r] IN
    IF kind \notin {"list", "tuple"}
    THEN [heap |-> h, raised |-> "TypeError", ret |-> 0]
    ELSE IF not_non_negative_integers(Ls)
    THEN [heap |-> h, raised |-> "ValueError", ret |-> 0]
    ELSE LET key == [i \in 1..Len(Ls) |-> IntOf(Ls[i])] IN
         IF in_cache(self.CACHED_SP1, key)
         THEN [heap |-> h, raised |-> "none", ret |-> self.CACHED_SP1[key]]
         ELSE IF Len(key) < size(self)
         THEN [heap |-> h, raised |-> "IndexError", ret |-> 0]
         ELSE LET made == RWOSystem_init(sp1_equations(self, key), self.parent,
                                         <<self.variables>>)
                  id == Len(h) + 1
              IN [heap |-> Append([h EXCEPT ![r].CACHED_SP1 = dict_set(@, key, id)],
                                  made.obj[1]),
                  raised |-> "none",
                  ret |-> id]

(***************************************************************************)
(* The systems a run starts from.                                          *)
(***************************************************************************)
Poly_u0_v0 == {Var("u", 0), Var("v", 0)}            \* u_0 + v_0
Poly_u0_v1 == {Var("u", 0), Var("v", 1)}            \* u_0 + v_1
Poly_u1_u0 == {Var("u", 1), Var("u", 0)}            \* u_1 - u_0
Poly_u0 == {Var("u", 0)}                            \* u_0
Poly_u0sq_v0 == {Sq("u", 0), Var("v", 0)}           \* u_0^2 + v_0
Poly_u0_one == {Var("u", 0), One}                   \* u_0 + 1
Poly_u0v0_one == {Times(Var("u", 0), Var("v", 0)), One}   \* u_0*v_0 + 1

RootParent == <<"u", "v">>

\* <<equations, variables>> of each starting system
RootSystems ==
    { <<<<Poly_u1_u0>>, <<"u">>>>,
      <<<<Poly_u0_v0, Poly_u0_v1>>, <<"u">>>>,
      <<<<Poly_u0_v0, Poly_u0_v1>>, <<"v">>>>,
      <<<<Poly_u0_v0, Poly_u0_v1>>, <<"u", "v">>>>,
      <<<<Poly_u1_u0, Poly_u0>>, <<"u">>>>,
      <<<<Poly_u0sq_v0, Poly_u0_v1>>, <<"u">>>>,
      <<<<Poly_u0_one, Poly_u1_u0>>, <<"u">>>>,
      <<<<Poly_u0sq_v0, Poly_u0_v1>>, <<"u", "v">>>>,
      <<<<Poly_u0v0_one, Poly_u0_v1>>, <<"u", "v">>>> }

Roots == { RWOSystem_init(r[1], RootParent, <<r[2]>>).obj[1] : r \in RootSystems }

NoCall == [op |-> "none", self |-> 0, kind |-> "", Ls |-> <<>>,
           raised |-> "none", ret |-> 0, flag |-> FALSE]

Init ==
    /\ \E s \in Roots : heap = <<s>>
    /\ last = NoCall
    /\ solver = "generic"

(***************************************************************************)
(* Calls of the extension API.                                             *)
(***************************************************************************)
\* The bound vectors a caller passes to a system of n equations: every
\* vector of n integers in 0..MaxExt; those with the last component missing;
\* the zero vector with one component too many; and zero vectors of length
\* n and n+1 in which the first or the last component is -1 or 1/2.
ZeroVector(n) == [i \in 1..n |-> 0]

LsInputs(n) ==
    LET valid == [1..n -> {Den * k : k \in 0..MaxExt}]
        bad(len) == {[ZeroVector(len) EXCEPT ![i] = b] : i \in {1, len}, b \in {-Den, 1}}
    IN valid
         \cup {SubSeq(v, 1, n - 1) : v \in valid}
         \cup {ZeroVector(n + 1)}
         \cup bad(n) \cup bad(n + 1)

\* Calls are made on the system the run started from (object 1).
ExtendByOperation ==
    \E kind \in {"list", "tuple", "other"}, Ls \in LsInputs(size(heap[1])) :
        LET res == extend_by_operation(heap, 1, kind, Ls) IN
        /\ kind = "other" => Ls = ZeroVector(size(heap[1]))
        /\ Len(res.heap) <= MaxHeap
        /\ heap' = res.heap
        /\ last' = [op |-> "extend_by_operation", self |-> 1, kind |-> kind, Ls |-> Ls,
                    raised |-> res.raised, ret |-> res.ret, flag |-> FALSE]
        /\ UNCHANGED solver

IsSp2 ==
    \E r \in 1..Len(heap) :
        /\ heap' = heap
        /\ last' = [op |-> "is_sp2", self |-> r, kind |-> "", Ls |-> <<>>,
                    raised |-> "none", ret |-> 0, flag |-> is_sp2(heap[r])]
        /\ UNCHANGED solver

Next == ExtendByOperation \/ IsSp2

Spec == Init /\ [][Next]_vars

(***************************************************************************)
(* Extension search: RWOSystem.__get_extension.                            *)
(***************************************************************************)
\* Compositions(n, length=length, max_part=max_part): the compositions of n
\* into length positive parts, none above max_part, largest first part first.
RECURSIVE Compositions(_, _, _)
Compositions(n, length, max_part) ==
    IF length = 0 THEN (IF n = 0 THEN << <<>> >> ELSE <<>>)
    ELSE LET hi == IF n < max_part THEN n ELSE max_part IN
         Flatten([j \in 1..hi |->
                    LET a == hi - j + 1
                        rest == Compositions(n - a, length - 1, max_part)
                    IN [c \in 1..Len(rest) |-> <<a>> \o rest[c]]])

\* gen_cartesian with the weights i in range(bound) only
gen_cartesian_low_weights(sz, bound) ==
    Flatten([i \in 1..bound |->
                LET cs == Compositions((i - 1) + sz, sz, bound)
                IN [c \in 1..Len(cs) |-> [k \in 1..sz |-> cs[c][k] - 1]]])

\* gen_cartesian yielding the heaviest vectors first
gen_cartesian_heavy_first(sz, bound) ==
    Flatten([i \in 1..(bound * sz) |->
                LET cs == Compositions((bound * sz - i) + sz, sz, bound)
                IN [c \in 1..Len(cs) |-> [k \in 1..sz |-> cs[c][k] - 1]]])

\* gen_cartesian(size, bound) of __get_extension, as the list it yields
gen_cartesian(sz, bound) ==
    Flatten([i \in 1..(bound * sz) |->
                LET cs == Compositions((i - 1) + sz, sz, bound)
                IN [c \in 1..Len(cs) |-> [k \in 1..sz |-> cs[c][k] - 1]]])

\* The for loop of __get_extension over the candidates cands, from the i-th:
\* extend_by_operation(L) is called on the receiver for each candidate until
\* one extension satisfies SP2.  tried is the list of the vectors passed.
RECURSIVE try_extensions(_, _, _, _)
try_extensions(h, r, cands, i) ==
    IF i > Len(cands)
    THEN [heap |-> h, raised |-> "TypeError", L |-> <<>>, tried |-> cands]
    ELSE LET body(e) ==
                 IF e.raised # "none"
                 THEN [heap |-> e.heap, raised |-> e.raised, L |-> <<>>,
                       tried |-> SubSeq(cands, 1, i)]
                 ELSE IF is_sp2(e.heap[e.ret])
                 THEN [heap |-> e.heap, raised |-> "none", L |-> cands[i],
                       tried |-> SubSeq(cands, 1, i)]
                 ELSE try_extensions(e.heap, r, cands, i + 1)
         IN body(extend_by_operation(h, r, "tuple",
                                     [k \in 1..Len(cands[i]) |-> Den * cands[i][k]]))

\* __get_extension taking the first candidate without asking is_sp2()
get_extension_untested(h, r, bound) ==
    LET cands == gen_cartesian(size(h[r]), bound)
        body(e) == [heap |-> e.heap, raised |-> e.raised, L |-> cands[1],
                    tried |-> <<cands[1]>>]
    IN IF bound < 0 \/ cands = <<>>
       THEN [heap |-> h, raised |-> "ValueError", L |-> <<>>, tried |-> <<>>]
       ELSE body(extend_by_operation(h, r, "tuple",
                                     [k \in 1..Len(cands[1]) |-> Den * cands[1][k]]))

\* RWOSystem.__get_extension(bound) on object r of heap h
get_extension(h, r, bound) ==
    IF bound < 0
    THEN [heap |-> h, raised |-> "ValueError", L |-> <<>>, tried |-> <<>>]
    ELSE try_extensions(h, r, gen_cartesian(size(h[r]), bound), 1)

NoExtension == [called |-> FALSE, raised |-> "none", L |-> <<>>, tried |-> <<>>]

ExtensionOf(x) == [called |-> TRUE, raised |-> x.raised, L |-> x.L, tried |-> x.tried]

(***************************************************************************)
(* Helpers of the resultant engine.                                        *)
(***************************************************************************)
RemoveAt(seq, i) == SubSeq(seq, 1, i - 1) \o SubSeq(seq, i + 1, Len(seq))

RECURSIVE Pow(_, _)
Pow(b, e) == IF e = 0 THEN 1 ELSE b * Pow(b, e - 1)

\* sorted(items, key=...): pairs is the list of <<key, item>>; the sort is
\* stable, so among equal keys the earlier item comes first.
RECURSIVE sorted_by_key(_)
sorted_by_key(pairs) ==
    IF pairs = <<>> THEN <<>>
    ELSE LET i == CHOOSE j \in 1..Len(pairs) :
                       /\ \A k \in 1..Len(pairs) : pairs[j][1] <= pairs[k][1]
                       /\ \A k \in 1..(j - 1) : pairs[j][1] < pairs[k][1]
         IN <<pairs[i][2]>> \o sorted_by_key(RemoveAt(pairs, i))

\* polynomial.degree(x) for an indexed variable x
degree_in(p, x) ==
    LET es == {t[3] : t \in {y \in UNION p : y[1] = x[1] /\ y[2] = x[2]}}
    IN IF es = {} THEN 0 ELSE CHOOSE e \in es : \A d \in es : d <= e

\* polynomial.degree(): total degree in the generators of the collapsed ring
total_degree(p, fams) ==
    LET ds == {mono_degree(m, fams) : m \in p}
    IN IF ds = {} THEN -1 ELSE CHOOSE e \in ds : \A d \in ds : d <= e

\* Subsets(variables) with k elements, each as the list of its elements in
\* the order of variables, in lexicographic order of positions from `from`.
RECURSIVE subsets_of_size(_, _, _)
subsets_of_size(vs, k, from) ==
    IF k = 0 THEN << <<>> >>
    ELSE Flatten([j \in 1..(Len(vs) - from + 1) |->
                    LET pos == from + j - 1
                        rest == subsets_of_size(vs, k - 1, pos + 1)
                    IN [c \in 1..Len(rest) |-> <<vs[pos]>> \o rest[c]]])

\* Set(variables): the elements once each
RECURSIVE without_repetitions(_)
without_repetitions(vs) ==
    IF vs = <<>> THEN <<>>
    ELSE LET front == without_repetitions(SubSeq(vs, 1, Len(vs) - 1))
         IN IF vs[Len(vs)] \in Range(front) THEN front ELSE Append(front, vs[Len(vs)])

\* Subsets(self.variables): the subsets of the set of variables, by
\* increasing size
Subsets(vs) ==
    LET sized(set) == Flatten([k \in 1..(Len(set) + 1) |-> subsets_of_size(set, k - 1, 1)])
    IN sized(without_repetitions(vs))

\* The external solvers are black boxes.  Of their value the model keeps the
\* indexed variables it can contain, as one monomial in all of them, and
\* whether it vanishes: a degenerate solver returns zero.
solver_value(xs) ==
    IF solver = "degenerate" THEN {} ELSE {{<<x[1], x[2], 1>> : x \in xs}}

\* pivot.sylvester_matrix(equ).determinant(): free of the eliminated variable
sylvester_determinant(p, q, v) ==
    solver_value((variables_of(p) \cup variables_of(q)) \ {v})

\* [el.homogenize() ...]; ring = equs[0].parent(); ring.macaulay_resultant(equs)
\* for the collapsed equations ae: the ring of the first equation gains the
\* homogenizing variable unless that equation is homogeneous already, and the
\* solver demands as many polynomials as its ring has generators.
macaulay_resultant(ae) ==
    LET ngens == Len(ae.variables)
                   + (IF poly_is_homogeneous(ae.equs[1], ae.variables) THEN 0 ELSE 1)
        coefficients == UNION {variables_of(ae.equs[i]) : i \in 1..Len(ae.equs)}
                          \ Range(ae.variables)
    IN IF Len(ae.equs) # ngens
       THEN [raised |-> "TypeError", value |-> {}]
       ELSE [raised |-> "none", value |-> solver_value(coefficients)]

(***************************************************************************)
(* Structural classifier: maximal_linear_variables.                        *)
(***************************************************************************)
IsSubsetSeq(a, b) == Range(a) \subseteq Range(b)

\* the for loop over Subsets(self.variables), from the i-th subset
RECURSIVE linear_scan(_, _, _, _, _)
linear_scan(s, subs, i, rejected, allowed) ==
    IF i > Len(subs) THEN allowed
    ELSE LET sub == subs[i] IN
         IF sub = <<>> THEN linear_scan(s, subs, i + 1, rejected, allowed)
         ELSE IF \E j \in 1..Len(rejected) : IsSubsetSeq(rejected[j], sub)
         THEN linear_scan(s, subs, i + 1, rejected, allowed)
         ELSE IF is_linear(s, <<sub>>)
         THEN linear_scan(s, subs, i + 1, rejected, Append(allowed, sub))
         ELSE linear_scan(s, subs, i + 1, Append(rejected, sub), allowed)

\* a loop that keeps every candidate popped
maximal_only_unfiltered(allowed, result) ==
    result \o [j \in 1..Len(allowed) |-> allowed[Len(allowed) + 1 - j]]

\* the while loop popping candidates from the end of allowed
RECURSIVE maximal_only(_, _)
maximal_only(allowed, result) ==
    IF allowed = <<>> THEN result
    ELSE LET candidate == allowed[Len(allowed)]
             rest == SubSeq(allowed, 1, Len(allowed) - 1)
         IN IF \A j \in 1..Len(result) : ~IsSubsetSeq(candidate, result[j])
            THEN maximal_only(rest, Append(result, candidate))
            ELSE maximal_only(rest, result)

\* RWOSystem.maximal_linear_variables()
maximal_linear_variables(s) ==
    LET allowed == linear_scan(s, Subsets(s.variables), 1, <<>>, <<>>)
        by_size == sorted_by_key([i \in 1..Len(allowed) |-> <<Len(allowed[i]), allowed[i]>>])
    IN maximal_only(by_size, <<>>)

(***************************************************************************)
(* Accessors: equation, equations, __getitem__.  The index arguments are   *)
(* Python values: None, an integer, a string, a list or tuple of values,   *)
(* or a slice whose three fields are None (<<>>) or an integer (<<i>>).    *)
(***************************************************************************)
PyNone == [kind |-> "None"]
PyStr == [kind |-> "str"]
PyInt(i) == [kind |-> "int", int |-> i]
PyList(items) == [kind |-> "list", items |-> items]
PyTuple(items) == [kind |-> "tuple", items |-> items]
PySlice(start, stop, step) == [kind |-> "slice", start |-> start, stop |-> stop, step |-> step]
PyInts(seq) == [j \in 1..Len(seq) |-> PyInt(seq[j])]

\* tuple[i] for an integer i: negative indices count from the end
in_range(n, i) == -n <= i /\ i < n
at(seq, i) == IF i < 0 THEN seq[Len(seq) + i + 1] ELSE seq[i + 1]

\* range(start, stop, step) as a list, step # 0
RECURSIVE py_range(_, _, _)
py_range(start, stop, step) ==
    IF (step > 0 /\ start >= stop) \/ (step < 0 /\ start <= stop) THEN <<>>
    ELSE <<start>> \o py_range(start + step, stop, step)

\* slice.indices(n) followed by range(*...): the positions a slice selects
slice_positions(sl, n) ==
    LET step == IF sl.step = NoValue THEN 1 ELSE sl.step[1]
        lower == IF step < 0 THEN -1 ELSE 0
        upper == IF step < 0 THEN n - 1 ELSE n
        clip(x) == IF x < 0 THEN Max2(x + n, lower)
                   ELSE IF x < upper THEN x ELSE upper
        start == IF sl.start = NoValue THEN (IF step < 0 THEN upper ELSE lower)
                 ELSE clip(sl.start[1])
        stop == IF sl.stop = NoValue THEN (IF step < 0 THEN lower ELSE upper)
                ELSE clip(sl.stop[1])
    IN py_range(start, stop, step)

\* equation((i, n)) that looks the equation up without applying the operator
equation_operator_dropped(s, index) ==
    IF index.kind \in {"list", "tuple"} /\ Len(index.items) = 2
    THEN IF in_range(size(s), index.items[1].int)
         THEN [raised |-> "none", value |-> at(s.equations, index.items[1].int)]
         ELSE [raised |-> "IndexError", value |-> {}]
    ELSE IF index.kind = "int" /\ in_range(size(s), index.int)
    THEN [raised |-> "none", value |-> at(s.equations, index.int)]
    ELSE [raised |-> "IndexError", value |-> {}]

\* RWOSystem.equation(index)
equation(s, index) ==
    IF index.kind \in {"list", "tuple"} /\ Len(index.items) = 2
    THEN IF in_range(size(s), index.items[1].int)
         THEN [raised |-> "none",
               value |-> operation(at(s.equations, index.items[1].int), index.items[2].int)]
         ELSE [raised |-> "IndexError", value |-> {}]
    ELSE IF index.kind = "int"
    THEN IF in_range(size(s), index.int)
         THEN [raised |-> "none", value |-> at(s.equations, index.int)]
         ELSE [raised |-> "IndexError", value |-> {}]
    ELSE [raised |-> "TypeError", value |-> {}]

\* equations(indices) reading a two-element list or tuple as one extended index
equations_pair_as_index(s, indices) ==
    IF indices.kind \in {"list", "tuple"} /\ Len(indices.items) = 2
    THEN [raised |-> equation(s, indices).raised, value |-> <<equation(s, indices).value>>]
    ELSE [raised |-> "none", value |-> s.equations]

\* RWOSystem.equations(indices)
equations(s, indices) ==
    IF indices.kind = "None" THEN [raised |-> "none", value |-> s.equations]
    ELSE LET items == IF indices.kind = "slice"
                      THEN PyInts(slice_positions(indices, size(s)))
                      ELSE IF indices.kind \notin {"list", "tuple"} THEN <<indices>>
                      ELSE indices.items
             got == [j \in 1..Len(items) |-> equation(s, items[j])]
         IN IF FirstRaisedOf(got) # "none"
            THEN [raised |-> FirstRaisedOf(got), value |-> <<>>]
            ELSE [raised |-> "none", value |-> [j \in 1..Len(got) |-> got[j].value]]

\* RWOSystem.__getitem__(index)
getitem(s, index) ==
    LET body(eqs) ==
            IF eqs.raised # "none" THEN [raised |-> eqs.raised, obj |-> NoValue]
            ELSE RWOSystem_init(eqs.value, s.parent, <<s.variables>>)
    IN body(equations(s, index))

(***************************************************************************)
(* subsystem, change_variables and the heuristics of the eliminator.       *)
(***************************************************************************)
\* RWOSystem.subsystem(indices, variables)
subsystem(s, indices, variables) ==
    LET body(eqs) ==
            IF eqs.raised # "none" THEN [raised |-> eqs.raised, obj |-> NoValue]
            ELSE RWOSystem_init(eqs.value, s.parent,
                                <<IF variables = NoValue THEN s.variables
                                  ELSE variables[1]>>)
    IN body(equations(s, indices))

\* change_variables that keeps the variables of the receiver
change_variables_kept(s, variables) == subsystem(s, PyNone, NoValue)

\* RWOSystem.change_variables(variables): variables is a list or tuple of
\* generators, or one generator (kind "gen") that is wrapped into a list
change_variables(s, variables) == subsystem(s, PyNone, <<variables.names>>)

\* RWOSystem.order(gen): max over the equations (ValueError on no equation)
order(s, gen) ==
    LET os == {order_in(s.equations[i], gen) : i \in 1..size(s)}
    IN CHOOSE o \in os : \A q \in os : q <= o

\* measure(v) of __iterative_best_variable
RECURSIVE measure_terms(_, _)
measure_terms(p, ts) ==
    IF ts = {} THEN 0
    ELSE LET t == CHOOSE x \in ts : TRUE
         IN Pow(t[2], degree_in(p, t)) + measure_terms(p, ts \ {t})

measure(s, v) ==
    SeqSum([i \in 1..size(s) |->
              measure_terms(s.equations[i],
                            {t \in variables_of(s.equations[i]) : t[1] = v})])

\* __iterative_best_variable() keeping the last family of least measure
iterative_best_variable_last(s) ==
    LET vs == s.variables
        i == CHOOSE j \in 1..Len(vs) :
                /\ \A k \in 1..Len(vs) : measure(s, vs[j]) <= measure(s, vs[k])
                /\ \A k \in (j + 1)..Len(vs) : measure(s, vs[j]) < measure(s, vs[k])
    IN vs[i]

\* RWOSystem.__iterative_best_variable(): the first family of least measure
iterative_best_variable(s) ==
    LET vs == s.variables
        i == CHOOSE j \in 1..Len(vs) :
                /\ \A k \in 1..Len(vs) : measure(s, vs[j]) <= measure(s, vs[k])
                /\ \A k \in 1..(j - 1) : measure(s, vs[j]) < measure(s, vs[k])
    IN vs[i]

\* last_index(num_appearances, min(num_appearances)), counted from 1, taking
\* the first least entry instead of the last
last_index_of_min_first(num_appearances) ==
    CHOOSE i \in 1..Len(num_appearances) :
       /\ \A k \in 1..Len(num_appearances) : num_appearances[i] <= num_appearances[k]
       /\ \A k \in 1..(i - 1) : num_appearances[i] < num_appearances[k]

\* last_index(num_appearances, min(num_appearances)), counted from 1
last_index_of_min(num_appearances) ==
    CHOOSE i \in 1..Len(num_appearances) :
       /\ \A k \in 1..Len(num_appearances) : num_appearances[i] <= num_appearances[k]
       /\ \A k \in (i + 1)..Len(num_appearances) : num_appearances[i] < num_appearances[k]

\* degrees[iv].index(min([el for el in degrees[iv] if el > 0])), counted
\* from 1; 0 when no degree is positive (min of an empty list: ValueError)
pivot_index(degs) ==
    LET positive == {degs[j] : j \in {k \in 1..Len(degs) : degs[k] > 0}}
        first_of(least) ==
            CHOOSE j \in 1..Len(degs) :
               degs[j] = least /\ \A k \in 1..(j - 1) : degs[k] # least
    IN IF positive = {} THEN 0
       ELSE first_of(CHOOSE d \in positive : \A e \in positive : d <= e)

\* The while loop of the univariate case: one pass removes the variable that
\* occurs in the fewest equations (the last such) and the pivot equation.
RECURSIVE eliminate(_, _)
eliminate(alg_equs, alg_vars) ==
    IF ~(Len(alg_equs) > 1 /\ Len(alg_vars) > 0)
    THEN [raised |-> "none", equs |-> alg_equs, steps |-> <<>>]
    ELSE LET degrees == [i \in 1..Len(alg_vars) |->
                            [j \in 1..Len(alg_equs) |-> degree_in(alg_equs[j], alg_vars[i])]]
             num_appearances ==
                 [i \in 1..Len(alg_vars) |->
                     Cardinality({j \in 1..Len(alg_equs) : degrees[i][j] # 0})]
             iv == last_index_of_min(num_appearances)
             v == alg_vars[iv]
             ip == pivot_index(degrees[iv])
             step == [kind |-> "loop", before |-> alg_vars, after |-> RemoveAt(alg_vars, iv),
                      system |-> NoValue, equs |-> alg_equs, var |-> v,
                      pivot |-> IF ip = 0 THEN NoValue ELSE <<alg_equs[ip]>>]
             after_step(rest) == [rest EXCEPT !.steps = <<step>> \o @]
         IN IF ip = 0
            THEN [raised |-> "ValueError", equs |-> alg_equs, steps |-> <<step>>]
            ELSE LET pivot == alg_equs[ip]
                     others == RemoveAt(alg_equs, ip)
                 IN after_step(eliminate([i \in 1..Len(others) |->
                                            IF degree_in(others[i], v) > 0
                                            THEN sylvester_determinant(pivot, others[i], v)
                                            ELSE others[i]],
                                         RemoveAt(alg_vars, iv)))

(***************************************************************************)
(* The resultant engine: diff_resultant and its algorithms.  An algorithm  *)
(* returns the heap it leaves, the exception it raised ("none" if it       *)
(* returned), its value and the extension search it ran on the receiver.   *)
(* Systems built during a computation and dropped at its end live on a     *)
(* heap of their own.                                                      *)
(***************************************************************************)
Outcome(h, raised, value, ext) ==
    [heap |-> h, raised |-> raised, value |-> value, ext |-> ext, calls |-> <<>>]

\* The trace of a computation, in the order things happen: one entry per
\* recursive diff_resultant call (the caller, the system called, the place
\* of the call in __iterative, the alg_res passed and what the call did),
\* one per variable picked by the multivariate case, one per set of linear
\* variables stripped, one per univariate
\* phase (the extended system, the equations left by the loop and the
\* outcome of the phase) and one per pass of the univariate loop (the
\* algebraic variables before and after, the equations before, the
\* variable and the pivot picked).
Traced(outcome, calls) == [outcome EXCEPT !.calls = calls \o @]

CallEntry(caller, system, phase, alg_res, result) ==
    [kind |-> "call", before |-> caller.variables, after |-> system.variables,
     system |-> system, caller |-> caller, phase |-> phase, alg |-> alg_res,
     used |-> result.used, raised |-> result.raised, value |-> result.value]

ChoiceEntry(caller, v, raised) ==
    [kind |-> "choice", caller |-> caller, var |-> v, raised |-> raised]

LinearEntry(caller, lin_vars) == [kind |-> "linear", caller |-> caller, vars |-> lin_vars]

UnivariateEntry(caller, system, L, done, outcome) ==
    [kind |-> "univariate", caller |-> caller, system |-> system, L |-> L,
     left |-> done.equs, raised |-> outcome.raised, value |-> outcome.value]

\* the calls a list comprehension made: all of them up to the first that raised
MadeCalls(results) ==
    LET bad == {j \in 1..Len(results) : results[j].raised # "none"}
    IN IF bad = {} THEN Len(results) ELSE CHOOSE j \in bad : \A k \in bad : j <= k

ComprehensionTrace(caller, systems, results, phase, alg_res) ==
    Flatten([j \in 1..MadeCalls(results) |->
               <<CallEntry(caller, systems[j], phase, alg_res, results[j])>>
                 \o results[j].calls])

\* the first exception raised while a list comprehension evaluates calls
FirstRaised(calls) ==
    LET bad == {j \in 1..Len(calls) : calls[j].raised # "none"}
    IN IF bad = {} THEN "none"
       ELSE calls[CHOOSE j \in bad : \A k \in bad : j <= k].raised

\* to_use_alg always chosen iterative
decide_resultant_algorithm_never_macaulay(self) == "iterative"

\* RWOSystem.__decide_resultant_algorithm()
decide_resultant_algorithm(self) ==
    IF is_linear(self, NoValue) THEN "macaulay" ELSE "iterative"

\* RWOSystem.__dixon(bound)
dixon(h, r, bound) == Outcome(h, "NotImplementedError", {}, NoExtension)

\* __macaulay searching with a larger bound than it was given
macaulay_larger_bound(h, r, bound) ==
    LET solved(g, e, m) == Outcome(e.heap, m.raised, m.value, ExtensionOf(g))
        extended(g, e) ==
            solved(g, e, macaulay_resultant(algebraic_equations(e.heap[e.ret])))
        searched(g) ==
            IF g.raised # "none" THEN Outcome(g.heap, g.raised, {}, ExtensionOf(g))
            ELSE extended(g, extend_by_operation(g.heap, r, "tuple",
                                                 [k \in 1..Len(g.L) |-> Den * g.L[k]]))
    IN searched(get_extension(h, r, bound + 1))

\* RWOSystem.__macaulay(bound)
macaulay(h, r, bound) ==
    LET solved(g, e, m) == Outcome(e.heap, m.raised, m.value, ExtensionOf(g))
        extended(g, e) ==
            solved(g, e, macaulay_resultant(algebraic_equations(e.heap[e.ret])))
        searched(g) ==
            IF g.raised # "none" THEN Outcome(g.heap, g.raised, {}, ExtensionOf(g))
            ELSE extended(g, extend_by_operation(g.heap, r, "tuple",
                                                 [k \in 1..Len(g.L) |-> Den * g.L[k]]))
    IN searched(get_extension(h, r, bound))

\* the eliminated families kept among the variables of the next system
remaining_variables_unchanged(variables, removed) == variables

\* rem_variables / rem_vars of __iterative: the variables not eliminated
remaining_variables(variables, removed) ==
    SelectSeq(variables, LAMBDA el : el \notin Range(removed))

RECURSIVE diff_resultant(_, _, _, _)
RECURSIVE iterative(_, _, _, _)

\* a nested call that lets the callee decide the algorithm
resultant_of_new_auto(system, bound, alg_res) == diff_resultant(<<system>>, 1, bound, "auto")

\* system.diff_resultant(bound, alg_res) on a system no caller holds
resultant_of_new(system, bound, alg_res) == diff_resultant(<<system>>, 1, bound, alg_res)

\* the indices of the equations in the order of the system
smallest_equations_unsorted(system) == [i \in 1..size(system) |-> i - 1]

\* smallest_equations of __iterative: the indices of the equations sorted by
\* their number of monomials
smallest_equations_of(system) ==
    sorted_by_key([i \in 1..size(system) |-> <<Cardinality(system.equations[i]), i - 1>>])

\* __iterative, first case: the linear variables are eliminated first
iterative_linear(h, r, bound, alg_res, lin_vars) ==
    LET self == h[r]
        system == change_variables(self, [kind |-> "list", names |-> lin_vars]).obj[1]
        smallest_equations == smallest_equations_of(system)
        cut == IF Len(lin_vars) < Len(smallest_equations)
               THEN Len(lin_vars) ELSE Len(smallest_equations)
        base_cases == SubSeq(smallest_equations, 1, cut)
        remaining == SubSeq(smallest_equations, cut + 1, Len(smallest_equations))
        rem_variables == remaining_variables(self.variables, lin_vars)
        subsystems == [j \in 1..Len(remaining) |->
                         subsystem(system, PyList(PyInts(base_cases \o <<remaining[j]>>)),
                                   NoValue).obj[1]]
        returned(made, final) ==
            Traced(Outcome(h, final.raised, final.value, NoExtension),
                   <<CallEntry(self, made, "linear-next", alg_res, final)>> \o final.calls)
        last_call(made) == returned(made, resultant_of_new(made, bound, alg_res))
        reduced(calls) ==
            Traced(IF FirstRaised(calls) # "none"
                   THEN Outcome(h, FirstRaised(calls), {}, NoExtension)
                   ELSE last_call(RWOSystem_init([j \in 1..Len(calls) |-> calls[j].value],
                                                 self.parent, <<rem_variables>>).obj[1]),
                   <<LinearEntry(self, lin_vars)>>
                     \o ComprehensionTrace(self, subsystems, calls, "linear-sub", "auto"))
    IN reduced([j \in 1..Len(remaining) |->
                  resultant_of_new(subsystems[j], bound, "auto")])

\* the indices of the equations that contain v, in the order of the system
equations_by_order_unsorted(self, v) ==
    SelectSeq([i \in 1..size(self) |-> i - 1],
              LAMBDA i : order_in(equation_plain(self, i), v) >= 0)

\* equs_by_order of __iterative: the indices of the equations that contain
\* v, sorted by their order in v
equations_by_order(self, v) ==
    LET with_v == SelectSeq([i \in 1..size(self) |-> i - 1],
                            LAMBDA i : order_in(equation_plain(self, i), v) >= 0)
    IN sorted_by_key([j \in 1..Len(with_v) |->
                        <<order_in(equation_plain(self, with_v[j]), v), with_v[j]>>])

\* __iterative, second case: several variables, one is eliminated by recursion
iterative_multivariate(h, r, bound, alg_res) ==
    LET self == h[r]
        v == iterative_best_variable(self)
        rem_vars == remaining_variables(self.variables, <<v>>)
    IN IF order(self, v) >= 0
       THEN LET equs_by_order == equations_by_order(self, v)
                others == SelectSeq([i \in 1..size(self) |-> i - 1],
                                    LAMBDA i : i \notin Range(equs_by_order))
            IN IF Len(equs_by_order) < 2
               THEN Traced(Outcome(h, "ValueError", {}, NoExtension),
                           <<ChoiceEntry(self, v, "ValueError")>>)
               ELSE LET subsystems ==
                            [j \in 1..(Len(equs_by_order) - 1) |->
                               subsystem(self,
                                         PyList(PyInts(<<equs_by_order[1],
                                                         equs_by_order[j + 1]>>)),
                                         << <<v>> >>).obj[1]]
                        returned(made, final) ==
                            Traced(Outcome(h, final.raised, final.value, NoExtension),
                                   <<CallEntry(self, made, "multi-next", alg_res, final)>>
                                     \o final.calls)
                        last_call(made) ==
                            returned(made, resultant_of_new(made, bound, alg_res))
                        reduced(calls) ==
                            Traced(IF FirstRaised(calls) # "none"
                                   THEN Outcome(h, FirstRaised(calls), {}, NoExtension)
                                   ELSE last_call(RWOSystem_init(
                                            [j \in 1..Len(calls) |-> calls[j].value]
                                              \o [j \in 1..Len(others) |->
                                                     equation_plain(self, others[j])],
                                            self.parent, <<rem_vars>>).obj[1]),
                                   <<ChoiceEntry(self, v, "none")>>
                                     \o ComprehensionTrace(self, subsystems, calls,
                                                           "multi-sub", alg_res))
                    IN reduced([j \in 1..Len(subsystems) |->
                                  resultant_of_new(subsystems[j], bound, alg_res)])
       \* self.subsystem(variables = rem_vars): the positional indices is missing
       ELSE Traced(Outcome(h, "TypeError", {}, NoExtension),
                   <<ChoiceEntry(self, v, "TypeError")>>)

\* __iterative, third case: one variable, eliminated algebraically
iterative_univariate(h, r, bound) ==
    LET self == h[r] IN
    IF Len(self.variables) = 0          \* repr(self.variables[0]) in the log line
    THEN Outcome(h, "IndexError", {}, NoExtension)
    ELSE LET old_vars == Range(algebraic_variables(self))
             new_vars(equs) ==
                 {x \in UNION {variables_of(equs[i]) : i \in 1..Len(equs)} :
                     x[1] \in Range(self.variables)}
             phase(g, system, done, outcome) ==
                 Traced(outcome, <<UnivariateEntry(self, system, g.L, done, outcome)>>)
             eliminated(g, hp, done) ==
                 Traced(IF done.raised # "none"
                        THEN Outcome(hp, done.raised, {}, ExtensionOf(g))
                        ELSE IF new_vars(done.equs) \cap old_vars # {}
                        THEN Outcome(hp, "ValueError", {}, ExtensionOf(g))
                        ELSE Outcome(hp, "none",
                                 sorted_by_key([i \in 1..Len(done.equs) |->
                                     <<Pow(total_degree(done.equs[i], Range(self.variables)), 2)
                                         + Cardinality(done.equs[i]),
                                       done.equs[i]>>])[1],
                                 ExtensionOf(g)),
                        done.steps)
             looped(g, hp, system, done) ==
                 phase(g, system, done, eliminated(g, hp, done))
             with_system(g, hp, system) ==
                 looped(g, hp, system, eliminate(algebraic_equations(system).equs,
                                                 algebraic_variables(system)))
             extended(g, e) == with_system(g, e.heap, e.heap[e.ret])
             searched(g) ==
                 IF g.raised # "none" THEN Outcome(g.heap, g.raised, {}, ExtensionOf(g))
                 ELSE extended(g, extend_by_operation(g.heap, r, "tuple",
                                                      [k \in 1..Len(g.L) |-> Den * g.L[k]]))
         IN searched(get_extension(h, r, bound))

\* RWOSystem.__iterative(bound, alg_res)
iterative(h, r, bound, alg_res) ==
    LET self == h[r]
        lin_vars == maximal_linear_variables(self)
    IN IF Len(lin_vars) > 0 /\ alg_res # "iterative"
       THEN iterative_linear(h, r, bound, alg_res, lin_vars[1])
       ELSE IF Len(self.variables) > 1
       THEN iterative_multivariate(h, r, bound, alg_res)
       ELSE iterative_univariate(h, r, bound)

\* a zero output accepted as a resultant
is_zero_never(output) == FALSE

\* output == 0
is_zero(output) == output = {}

\* RWOSystem.diff_resultant(bound_L, alg_res) on object r of heap h; used is
\* to_use_alg ("" when the body of the cache test is skipped or raises first),
\* output what the algorithm returned (None if it did not return) and calls
\* the trace of the computation
diff_resultant(h, r, bound_L, alg_res) ==
    LET self == h[r] IN
    IF self.CACHED_RES # NoValue
    THEN [heap |-> h, raised |-> "none", value |-> self.CACHED_RES[1],
          used |-> "", ext |-> NoExtension, output |-> NoValue, calls |-> <<>>]
    ELSE IF alg_res \notin {"auto", "iterative", "dixon", "macaulay"}
    THEN [heap |-> h, raised |-> "ValueError", value |-> {},
          used |-> "", ext |-> NoExtension, output |-> NoValue, calls |-> <<>>]
    ELSE LET computed(to_use_alg, output) ==
                 IF output.raised # "none"
                 THEN [heap |-> output.heap, raised |-> output.raised, value |-> {},
                       used |-> to_use_alg, ext |-> output.ext,
                       output |-> NoValue, calls |-> output.calls]
                 ELSE IF is_zero(output.value)          \* degenerate case
                 THEN [heap |-> output.heap, raised |-> "ValueError", value |-> {},
                       used |-> to_use_alg, ext |-> output.ext,
                       output |-> <<output.value>>, calls |-> output.calls]
                 ELSE [heap |-> [output.heap EXCEPT ![r].CACHED_RES = <<output.value>>],
                       raised |-> "none", value |-> output.value,
                       used |-> to_use_alg, ext |-> output.ext,
                       output |-> <<output.value>>, calls |-> output.calls]
             chosen(to_use_alg) ==
                 computed(to_use_alg,
                          IF to_use_alg = "dixon" THEN dixon(h, r, bound_L)
                          ELSE IF to_use_alg = "macaulay" THEN macaulay(h, r, bound_L)
                          ELSE iterative(h, r, bound_L, alg_res))
         IN chosen(IF alg_res = "auto" THEN decide_resultant_algorithm(self) ELSE alg_res)

(***************************************************************************)
(* Calls of the resultant engine.                                          *)
(***************************************************************************)
AlgInputs == {"auto", "iterative", "dixon", "macaulay", "sylvester"}

\* further systems the resultant is asked of
Poly_u3 == {Var("u", 3)}                                    \* u_3
Poly_u1_u3 == {Var("u", 1), Var("u", 3)}                    \* u_1 + u_3
Poly_u0_u2_u3 == {Var("u", 0), Var("u", 2), Var("u", 3)}    \* u_0 + u_2 + u_3
Poly_v0_u1 == {Var("v", 0), Var("u", 1)}                    \* v_0 + u_1
Poly_v1 == {Var("v", 1)}                                    \* v_1
Poly_v0 == {Var("v", 0)}                                    \* v_0
Poly_u2 == {Var("u", 2)}                                    \* u_2
Poly_u0_u2 == {Var("u", 0), Var("u", 2)}                    \* u_0 + u_2
Poly_u0sq_v0_one == {Sq("u", 0), Var("v", 0), One}          \* u_0^2 + v_0 + 1

ResRootSystems ==
    { <<<<Poly_u1_u0, Poly_u0>>, <<"u", "v">>>>,
      <<<<Poly_u3, Poly_u1_u3, Poly_u0_u2_u3>>, <<"u">>>>,
      <<<<Poly_v0_u1, Poly_u0_v0, Poly_v1>>, <<"u", "v">>>>,
      <<<<Poly_u0_v1, Poly_v0>>, <<"u", "v">>>>,
      <<<<Poly_u0, Poly_u2, Poly_u0_u2>>, <<"u">>>>,
      <<<<Poly_u0sq_v0_one, Poly_u0_v1>>, <<"u", "v">>>>,
      <<<<Poly_u0_u2, Poly_u0>>, <<"u">>>> }

ResRoots ==
    Roots \cup { RWOSystem_init(r[1], RootParent, <<r[2]>>).obj[1] : r \in ResRootSystems }

InitRes ==
    /\ \E s \in ResRoots : heap = <<s>>
    /\ last = NoCall
    /\ solver \in {"generic", "degenerate"}

\* diff_resultant is called on the system the run started from (object 1);
\* before is what its result cache held when the call was made.
DiffResultant ==
    \E bound_L \in -1..MaxBound, alg_res \in AlgInputs :
        LET finish(res) ==
                /\ heap' = res.heap
                /\ last' = [op |-> "diff_resultant", self |-> 1, bound |-> bound_L,
                            alg |-> alg_res, raised |-> res.raised, value |-> res.value,
                            used |-> res.used, ext |-> res.ext,
                            before |-> heap[1].CACHED_RES,
                            output |-> res.output, calls |-> res.calls]
        IN /\ finish(diff_resultant(heap, 1, bound_L, alg_res))
           /\ UNCHANGED solver

NextRes == DiffResultant

SpecRes == InitRes /\ [][NextRes]_vars

(***************************************************************************)
(* Calls of the constructor, the accessors and the transformations.  They  *)
(* are made on the system built last (object Len(heap)); a system returned *)
(* by a call becomes a new object.                                         *)
(***************************************************************************)
MaxBuilt == 2      \* largest number of systems built from others in one run

\* indices passed to equation() on a system of n equations
IndexInputs(n) ==
    {PyInt(i) : i \in (-n - 1)..n}
      \cup {PyTuple(<<PyInt(i), PyInt(k)>>) : i \in {-1, 0, n}, k \in 0..(MaxExt + 1)}
      \cup {PyList(<<PyInt(0), PyInt(1)>>), PyTuple(<<PyInt(0)>>),
            PyTuple(<<PyInt(0), PyInt(0), PyInt(0)>>), PyNone, PyStr}

\* indices passed to equations() on a system of n equations
IndicesInputs(n) ==
    {PyNone, PyStr, PyInt(0), PyInt(n), PyInt(-1),
     PySlice(NoValue, NoValue, NoValue), PySlice(NoValue, NoValue, <<-1>>),
     PySlice(<<1>>, NoValue, NoValue), PySlice(NoValue, <<-1>>, <<2>>),
     PyList(<<>>), PyList(<<PyInt(n)>>),
     PyList(<<PyInt(n - 1), PyInt(0), PyInt(0)>>),
     PyTuple(<<PyInt(0), PyInt(1)>>),
     PyList(<<PyTuple(<<PyInt(0), PyInt(1)>>), PyInt(0)>>)}

\* variables arguments: None or a list of names ("w" names no generator)
VariablesInputs == {NoValue, << <<"v">> >>, << <<"w">> >>}

ChangeInputs(s) ==
    {[kind |-> "list", names |-> s.variables], [kind |-> "gen", names |-> <<"v">>],
     [kind |-> "tuple", names |-> <<"u", "w">>]}

SysCall(op, r, arg, variables, raised, ret, value) ==
    [op |-> op, self |-> r, arg |-> arg, variables |-> variables,
     raised |-> raised, ret |-> ret, value |-> value]

\* a call that builds a system: the system, if one is returned, is a new object
Built(op, r, arg, variables, made) ==
    /\ heap' = IF made.raised = "none" THEN Append(heap, made.obj[1]) ELSE heap
    /\ last' = SysCall(op, r, arg, variables, made.raised,
                       IF made.raised = "none" THEN Len(heap) + 1 ELSE 0, <<>>)
    /\ UNCHANGED solver

\* The constructor called with the equations and ring of the system and a
\* new list of variables.
Construct ==
    \E variables \in {<< <<>> >>, << <<"u", "u">> >>, << <<"v", "w">> >>} :
        /\ Len(heap) <= MaxBuilt
        /\ Built("init", Len(heap), PyNone, variables,
                 RWOSystem_init(heap[Len(heap)].equations, heap[Len(heap)].parent,
                                variables))

Equation ==
    \E index \in IndexInputs(size(heap[Len(heap)])) :
        LET done(e) == last' = SysCall("equation", Len(heap), index, NoValue,
                                       e.raised, 0, e.value)
        IN /\ done(equation(heap[Len(heap)], index))
           /\ UNCHANGED <<heap, solver>>

Equations ==
    \E indices \in IndicesInputs(size(heap[Len(heap)])) :
        LET done(e) == last' = SysCall("equations", Len(heap), indices, NoValue,
                                       e.raised, 0, e.value)
        IN /\ done(equations(heap[Len(heap)], indices))
           /\ UNCHANGED <<heap, solver>>

GetItem ==
    \E index \in {PyInt(0), PyInt(size(heap[Len(heap)])), PyTuple(<<PyInt(0), PyInt(1)>>),
                  PySlice(NoValue, NoValue, <<-1>>)} :
        /\ Len(heap) <= MaxBuilt
        /\ Built("getitem", Len(heap), index, NoValue, getitem(heap[Len(heap)], index))

Subsystem ==
    \E indices \in {PyNone, PyInt(size(heap[Len(heap)])),
                    PyList(<<PyInt(size(heap[Len(heap)]) - 1), PyInt(0)>>)},
       variables \in VariablesInputs :
        /\ Len(heap) <= MaxBuilt
        /\ Built("subsystem", Len(heap), indices, variables,
                 subsystem(heap[Len(heap)], indices, variables))

ChangeVariables ==
    \E variables \in ChangeInputs(heap[Len(heap)]) :
        /\ Len(heap) <= MaxBuilt
        /\ Built("change_variables", Len(heap), PyNone, variables,
                 change_variables(heap[Len(heap)], variables))

AlgebraicVariables ==
    /\ last' = SysCall("algebraic_variables", Len(heap), PyNone, NoValue, "none", 0,
                       algebraic_variables(heap[Len(heap)]))
    /\ UNCHANGED <<heap, solver>>

MaximalLinearVariables ==
    /\ last' = SysCall("maximal_linear_variables", Len(heap), PyNone, NoValue, "none", 0,
                       maximal_linear_variables(heap[Len(heap)]))
    /\ UNCHANGED <<heap, solver>>

NextSys ==
    \/ Construct \/ Equation \/ Equations \/ GetItem \/ Subsystem \/ ChangeVariables
    \/ AlgebraicVariables \/ MaximalLinearVariables

SpecSys == Init /\ [][NextSys]_vars

(***************************************************************************)
(* Vocabulary of the properties.                                           *)
(***************************************************************************)
ExtendCalled == last.op = "extend_by_operation"
ExtendReturned == ExtendCalled /\ last.raised = "none"

\* the integer vector a (valid) argument of the last call stands for
LastKey == [i \in 1..Len(last.Ls) |-> last.Ls[i] \div Den]

\* p with every index raised by n: the operator applied n times
Shifted(p, n) == {{<<t[1], t[2] + n, t[3]>> : t \in m} : m \in p}

\* position in the extended system of the first equation derived from equation i
Offset(key, i) == SeqSum([j \in 1..i |-> key[j] + 1])

RECURSIVE IsSubsequence(_, _)
IsSubsequence(a, b) ==
    IF a = <<>> THEN TRUE
    ELSE IF b = <<>> THEN FALSE
    ELSE IF Head(a) = Head(b) THEN IsSubsequence(Tail(a), Tail(b))
    ELSE IsSubsequence(a, Tail(b))

\* C4: is_sp2() is true iff the number of distinct indexed variables of the
\* main families occurring in the equations equals size() for a homogeneous
\* system and size() - 1 otherwise (homogeneous: in every equation all
\* monomials have the same degree in the main families).
C4_IsSp2Balance ==
    last.op = "is_sp2" =>
        LET s == heap[last.self]
            main == Range(s.variables)
            occurring == UNION {variables_of(s.equations[i]) : i \in 1..Len(s.equations)}
            n == Cardinality({x \in occurring : x[1] \in main})
            m == Len(s.equations)
            homogeneous ==
                \A i \in 1..m : \A m1 \in s.equations[i] : \A m2 \in s.equations[i] :
                    mono_degree(m1, main) = mono_degree(m2, main)
        IN last.flag = (IF homogeneous THEN n = m ELSE n = m - 1)

\* is_sp2() answered True for a system that has main variables [u], while
\* the same equations with main variables [v] do not satisfy SP2.
C4_Witness ==
    /\ last.op = "is_sp2"
    /\ last.flag
    /\ heap[last.self].variables = <<"u">>
    /\ ~is_sp2(RWOSystem_init(heap[last.self].equations, heap[last.self].parent,
                              <<<<"v">>>>).obj[1])

\* C7: the system extend_by_operation(Ls) returns holds, for i = 0..size()-1
\* in order, the equations i with the operator applied 0, 1, ..., Ls[i] times;
\* its size is the sum of Ls[i]+1, its variables and parent are the receiver's;
\* and of two extensions of one receiver with Ls1 <= Ls2 componentwise the
\* first is an order-preserving subsequence of the second.
C7_ExtensionShape ==
    /\ ExtendReturned =>
         LET self == heap[last.self]
             out == heap[last.ret]
             key == LastKey
             n == Len(self.equations)
         IN /\ Len(out.equations) = SeqSum([i \in 1..n |-> key[i] + 1])
            /\ \A i \in 1..n : \A k \in 0..key[i] :
                  out.equations[Offset(key, i - 1) + k + 1] = Shifted(self.equations[i], k)
            /\ out.variables = self.variables
            /\ out.parent = self.parent
            /\ \A smaller \in [1..n -> 0..MaxExt] :
                  (\A i \in 1..n : smaller[i] <= key[i])
                  => IsSubsequence(sp1_equations(self, smaller), out.equations)
    /\ \A r \in 1..Len(heap) :
         \A k1 \in DOMAIN heap[r].CACHED_SP1 : \A k2 \in DOMAIN heap[r].CACHED_SP1 :
            (/\ Len(k1) = Len(k2)
             /\ \A i \in 1..Len(k1) : k1[i] <= k2[i])
            => IsSubsequence(heap[heap[r].CACHED_SP1[k1]].equations,
                             heap[heap[r].CACHED_SP1[k2]].equations)

\* an extension of a two-equation system by a vector with a positive component
C7_Witness ==
    /\ ExtendReturned
    /\ Len(heap[last.self].equations) = 2
    /\ LastKey = <<1, 0>>
    /\ Len(heap[last.ret].equations) = 3

\* C8 (as claimed): a list or tuple whose length differs from size() makes
\* extend_by_operation raise TypeError or ValueError and return nothing, and
\* no extension is ever cached under a key of the wrong length.
C8_WrongLengthRejected ==
    /\ (/\ ExtendCalled
        /\ last.kind \in {"list", "tuple"}
        /\ Len(last.Ls) # Len(heap[last.self].equations))
       => (last.raised \in {"TypeError", "ValueError"} /\ last.ret = 0)
    /\ \A r \in 1..Len(heap) :
         \A k \in DOMAIN heap[r].CACHED_SP1 : Len(k) = Len(heap[r].equations)

\* C9: extend_by_operation raises TypeError for an argument that is neither a
\* list nor a tuple, ValueError for a list or tuple with a negative or
\* non-integer component, and a call that raises either leaves every system
\* and every extension cache as it was and returns nothing.
C9_MalformedRejected ==
    [][ last'.op = "extend_by_operation" =>
          /\ last'.kind \notin {"list", "tuple"} => last'.raised = "TypeError"
          /\ (/\ last'.kind \in {"list", "tuple"}
              /\ \E i \in 1..Len(last'.Ls) :
                    last'.Ls[i] < 0 \/ last'.Ls[i] % Den # 0)
             => last'.raised = "ValueError"
          /\ last'.raised \in {"TypeError", "ValueError"}
             => (heap' = heap /\ last'.ret = 0) ]_vars

\* a vector with the component 1/2 was rejected by a receiver that already
\* holds a cached extension
C9_Witness ==
    /\ ExtendCalled
    /\ last.raised = "ValueError"
    /\ \E i \in 1..Len(last.Ls) : last.Ls[i] = 1
    /\ DOMAIN heap[last.self].CACHED_SP1 # {}

\* C10: no call removes or replaces an entry of an extension cache or changes
\* a system already built; a call whose vector (list or tuple) is already a
\* key returns the object stored under it and builds nothing; and the object
\* returned has the equations, variables and parent a fresh computation gives.
C10_CacheWriteOnce ==
    [][ /\ \A r \in 1..Len(heap) :
            /\ r <= Len(heap')
            /\ heap'[r].equations = heap[r].equations
            /\ heap'[r].variables = heap[r].variables
            /\ heap'[r].parent = heap[r].parent
            /\ \A k \in DOMAIN heap[r].CACHED_SP1 :
                  /\ k \in DOMAIN heap'[r].CACHED_SP1
                  /\ heap'[r].CACHED_SP1[k] = heap[r].CACHED_SP1[k]
        /\ (last'.op = "extend_by_operation" /\ last'.raised = "none") =>
             LET self == heap[last'.self]
                 key == [i \in 1..Len(last'.Ls) |-> last'.Ls[i] \div Den]
                 out == heap'[last'.ret]
             IN /\ key \in DOMAIN self.CACHED_SP1
                   => (last'.ret = self.CACHED_SP1[key] /\ heap' = heap)
                /\ heap'[last'.self].CACHED_SP1[key] = last'.ret
                /\ out.equations = sp1_equations(self, key)
                /\ out.variables = self.variables
                /\ out.parent = self.parent ]_vars

\* a call answered from the cache: it returned an object that is not the
\* most recently built one, for a receiver with two cached extensions
C10_Witness ==
    /\ ExtendReturned
    /\ last.ret < Len(heap)
    /\ last.kind = "list"
    /\ Cardinality(DOMAIN heap[last.self].CACHED_SP1) = 2

(***************************************************************************)
(* Properties of the resultant engine.                                     *)
(***************************************************************************)
ResultantCalled == last.op = "diff_resultant"

\* the call found the result cache empty and ran the body of diff_resultant
ResultantComputed == ResultantCalled /\ last.before = NoValue

SearchRan == ResultantCalled /\ last.ext.called

\* a new instance with the equations, ring and variable partition of s
Fresh(s) == RWOSystem_init(s.equations, s.parent, <<s.variables>>).obj[1]

\* the equations of the extension of self by the vector L, written out
ExtensionEquations(self, L) ==
    Flatten([i \in 1..Len(self.equations) |->
               [k \in 1..(L[i] + 1) |-> Shifted(self.equations[i], k - 1)]])

\* SP2 counted directly: as many main indexed variables as equations when
\* every equation is homogeneous in them, one fewer otherwise
Balanced(eqs, main) ==
    LET occurring == UNION {variables_of(eqs[i]) : i \in 1..Len(eqs)}
        n == Cardinality({x \in occurring : x[1] \in main})
        homogeneous ==
            \A i \in 1..Len(eqs) : \A m1 \in eqs[i] : \A m2 \in eqs[i] :
                mono_degree(m1, main) = mono_degree(m2, main)
    IN IF homogeneous THEN n = Len(eqs) ELSE n = Len(eqs) - 1

\* the vectors of length size() with every component in 0..b-1
VectorsBelow(self, b) == [1..Len(self.equations) -> 0..(b - 1)]

\* C1 (as claimed): whatever calls were made before, diff_resultant(bound_L,
\* alg_res) returns the value, or raises the exception, that the same call
\* returns or raises on a fresh instance with the same equations, ring and
\* variable partition.
C1_CacheHasNoEffect ==
    ResultantCalled =>
        LET fresh == diff_resultant(<<Fresh(heap[last.self])>>, 1, last.bound, last.alg)
        IN /\ last.raised = fresh.raised
           /\ last.raised = "none" => last.value = fresh.value

\* C2 (as claimed): every call with alg_res = "dixon" raises
\* NotImplementedError and every call with an alg_res outside "auto",
\* "iterative", "dixon", "macaulay" raises ValueError, whatever was called
\* before; neither returns a value.
C2_DixonAndUnknownAlwaysRaise ==
    ResultantCalled =>
        /\ last.alg = "dixon" => last.raised = "NotImplementedError"
        /\ last.alg \notin {"auto", "iterative", "dixon", "macaulay"}
              => last.raised = "ValueError"

\* C3: a call with alg_res = "auto" that computes a result runs the Macaulay
\* path when every equation has degree at most one in the main families
\* (is_linear() for the current variables) and the iterative eliminator
\* otherwise.
C3_AutoDispatch ==
    (ResultantComputed /\ last.alg = "auto") =>
        LET self == heap[last.self]
            linear == \A i \in 1..Len(self.equations) : \A m \in self.equations[i] :
                         mono_degree(m, Range(self.variables)) <= 1
        IN last.used = (IF linear THEN "macaulay" ELSE "iterative")

\* an "auto" call on a system that is not linear returned a value, computed
\* by the iterative eliminator
C3_Witness ==
    /\ ResultantComputed
    /\ last.alg = "auto"
    /\ last.used = "iterative"
    /\ last.raised = "none"
    /\ \E i \in 1..Len(heap[1].equations) : \E m \in heap[1].equations[i] :
          mono_degree(m, Range(heap[1].variables)) = 2

\* C5: when the extension search returns a vector L, the receiver holds the
\* extension by L and that extension satisfies SP2.
C5_FoundExtensionIsSp2 ==
    (SearchRan /\ last.ext.raised = "none") =>
        LET self == heap[last.self]
            L == last.ext.L
        IN /\ Len(L) = Len(self.equations)
           /\ L \in DOMAIN self.CACHED_SP1
           /\ heap[self.CACHED_SP1[L]].equations = ExtensionEquations(self, L)
           /\ Balanced(ExtensionEquations(self, L), Range(self.variables))

\* the search returned <<1, 0>> after the extension by <<0, 0>> failed SP2
C5_Witness ==
    /\ SearchRan
    /\ last.ext.raised = "none"
    /\ last.ext.L = <<1, 0>>
    /\ ~Balanced(ExtensionEquations(heap[last.self], <<0, 0>>),
                 Range(heap[last.self].variables))

\* C6: the extension search with bound b >= 0 raises TypeError exactly when
\* no vector of length size() with components in 0..b-1 has an SP2
\* extension; it then has tried every such vector; the vectors it tries are
\* distinct, have no negative component, and each was handed to
\* extend_by_operation (it is a key of the receiver's extension cache); and
\* a search that succeeds skipped no vector that has an SP2 extension and
\* comes earlier in its order.
C6_SearchExhaustive ==
    (SearchRan /\ last.bound >= 0) =>
        LET self == heap[last.self]
            all == VectorsBelow(self, last.bound)
            tried == last.ext.tried
            good(L) == Balanced(ExtensionEquations(self, L), Range(self.variables))
        IN /\ last.ext.raised \in {"none", "TypeError"}
           /\ (last.ext.raised = "TypeError") = (\A L \in all : ~good(L))
           /\ last.ext.raised = "TypeError" => Range(tried) = all
           /\ \A i \in 1..Len(tried) :
                 /\ tried[i] \in all
                 /\ \A k \in 1..Len(tried[i]) : tried[i][k] >= 0
                 /\ tried[i] \in DOMAIN self.CACHED_SP1
                 /\ \A j \in 1..(i - 1) : tried[j] # tried[i]
           /\ last.ext.raised = "none" =>
                 /\ tried[Len(tried)] = last.ext.L
                 /\ \A i \in 1..(Len(tried) - 1) : ~good(tried[i])

\* a search over a two-equation system with bound 2 tried all four vectors
\* with components in 0..1 and raised TypeError
C6_Witness ==
    /\ SearchRan
    /\ last.bound = 2
    /\ last.ext.raised = "TypeError"
    /\ last.raised = "TypeError"
    /\ Len(last.ext.tried) = 4
    /\ <<1, 1>> \in Range(last.ext.tried)

\* C11: when the algorithm returns the zero polynomial, diff_resultant raises
\* ValueError and leaves the result cache empty, so that the next call finds
\* it empty and computes again; zero is never returned and never cached.
C11_ZeroResultantRaises ==
    /\ (ResultantCalled /\ last.output = <<{}>>) =>
          /\ last.raised = "ValueError"
          /\ heap[last.self].CACHED_RES = NoValue
    /\ (ResultantCalled /\ last.raised = "none") => last.value # {}
    /\ \A r \in 1..Len(heap) : heap[r].CACHED_RES # <<{}>>
    /\ (/\ ResultantComputed
        /\ last.alg \in {"auto", "iterative", "dixon", "macaulay"}) => last.used # ""

\* the search found the extension by <<1, 0>>, the solver returned zero for
\* it and the call raised ValueError
C11_Witness ==
    /\ ResultantComputed
    /\ solver = "degenerate"
    /\ last.output = <<{}>>
    /\ last.raised = "ValueError"
    /\ last.ext.L = <<1, 0>>

\* C12: a call whose algorithm fails raises that failure and leaves the
\* result cache empty.  Only one algorithm runs with only the given bound:
\* the search tries no vector outside 0..bound-1, an error of the search is
\* the error of the call, the Macaulay and Dixon paths make no recursive
\* call, and a Macaulay path (chosen by "auto" or asked for) for which no
\* vector with components in 0..bound-1 has an SP2 extension ends in the
\* TypeError of the search.
C12_FailurePropagates ==
    ResultantComputed =>
        LET self == heap[last.self]
            good(L) == Balanced(ExtensionEquations(self, L), Range(self.variables))
        IN /\ last.raised # "none" => (self.CACHED_RES = NoValue /\ last.value = {})
           /\ (last.ext.called /\ last.ext.raised # "none")
                 => (last.raised = last.ext.raised /\ last.output = NoValue)
           /\ \A i \in 1..Len(last.ext.tried) :
                 last.bound >= 0 /\ last.ext.tried[i] \in VectorsBelow(self, last.bound)
           /\ last.used \in {"macaulay", "dixon"} => last.calls = <<>>
           /\ last.used = "dixon" => ~last.ext.called
           /\ (/\ last.used = "macaulay"
               /\ last.bound >= 0
               /\ \A L \in VectorsBelow(self, last.bound) : ~good(L))
                 => last.raised = "TypeError"

\* "auto" chose Macaulay for a linear system that has an SP2 extension by
\* <<1, 0>> but none with components below the bound 1: the search failed,
\* the call raised its TypeError and cached nothing
C12_Witness ==
    /\ ResultantComputed
    /\ last.alg = "auto"
    /\ last.used = "macaulay"
    /\ last.bound = 1
    /\ last.raised = "TypeError"
    /\ heap[last.self].CACHED_RES = NoValue
    /\ Balanced(ExtensionEquations(heap[last.self], <<1, 0>>),
                Range(heap[last.self].variables))

\* C13: every diff_resultant call returns or raises; each recursive
\* diff_resultant call of the iterative eliminator is on a system whose main
\* variables are strictly fewer than (and among) those of the system it is
\* made for, and each pass of the univariate loop removes exactly one
\* variable from the list of algebraic variables.
C13_RecursionDecreases ==
    ResultantCalled =>
        /\ last.raised \in {"none", "ValueError", "TypeError", "IndexError",
                            "NotImplementedError"}
        /\ \A i \in 1..Len(last.calls) :
              LET c == last.calls[i] IN
              /\ c.kind = "call" =>
                    /\ Len(c.after) < Len(c.before)
                    /\ Range(c.after) \subseteq Range(c.before)
              /\ c.kind = "loop" =>
                    /\ Len(c.after) = Len(c.before) - 1
                    /\ IsSubsequence(c.after, c.before)

\* a computation that made recursive calls from a system with two main
\* variables and ran the univariate loop in one of them
C13_Witness ==
    /\ ResultantCalled
    /\ \E i \in 1..Len(last.calls) :
          last.calls[i].kind = "call" /\ Len(last.calls[i].before) = 2
    /\ \E i \in 1..Len(last.calls) : last.calls[i].kind = "loop"
    /\ Len(last.calls) >= 3

(***************************************************************************)
(* Properties of the constructor, the accessors and the transformations.   *)
(***************************************************************************)
BuildOps == {"init", "getitem", "subsystem", "change_variables"}

\* the call built a system, or no call was made yet: the system built last
\* has not been looked at
JustBuilt == last.op = "none" \/ (last.op \in BuildOps /\ last.raised = "none")

\* the names a building call was given as variables (none: <<>>)
NamesGiven ==
    IF last.op = "change_variables" THEN last.variables.names
    ELSE IF last.variables = NoValue THEN <<>> ELSE last.variables[1]

\* variables and parameters are disjoint and cover the generators
Partition(s) ==
    /\ Range(s.variables) \cap Range(s.parameters) = {}
    /\ Range(s.variables) \cup Range(s.parameters) = Range(s.parent)

\* bound vectors of non-negative integers for a system s, as lists
VectorsFor(s) == [1..Len(s.equations) -> {Den * k : k \in 0..MaxExt}]

\* C14: in every system alive (built by the constructor, subsystem,
\* change_variables or __getitem__, in any chain), in every extension of the
\* system built last and in every system the iterative eliminator builds
\* for it, variables and parameters are disjoint and together are the
\* generators of the parent; and a constructor, change_variables or
\* subsystem call (with valid indices) given a name that is no generator
\* raises ValueError and builds nothing, while valid names never do.
C14_VariablesPartition ==
    /\ \A r \in 1..Len(heap) : Partition(heap[r])
    /\ last.op \in BuildOps =>
          LET bad == \E i \in 1..Len(NamesGiven) :
                        NamesGiven[i] \notin Range(heap[last.self].parent)
          IN /\ (bad /\ last.arg.kind \in {"None", "list"})
                   => (last.raised = "ValueError" /\ last.ret = 0)
             /\ last.raised = "ValueError" => bad
    /\ JustBuilt =>
          /\ \A Ls \in VectorsFor(heap[Len(heap)]) :
                LET e == extend_by_operation(heap, Len(heap), "list", Ls)
                IN e.raised = "none" /\ Partition(e.heap[e.ret])
          /\ \A b \in 0..MaxBound : \A alg \in {"auto", "iterative"} :
                LET d == diff_resultant(heap, Len(heap), b, alg)
                IN \A i \in 1..Len(d.calls) :
                      d.calls[i].kind = "call" => Partition(d.calls[i].system)

\* change_variables with a name that is no generator was rejected, on a
\* system that subsystem had built with the variables [v] from a system with
\* other variables
C14_Witness ==
    /\ last.op = "change_variables"
    /\ last.raised = "ValueError"
    /\ Len(heap) = 2
    /\ heap[2].variables = <<"v">>
    /\ heap[2].parameters = <<"u">>
    /\ heap[1].variables # <<"v">>

\* equations (and their order), variables, parameters and parent agree
SameSystem(a, b) ==
    /\ a.equations = b.equations
    /\ a.variables = b.variables
    /\ a.parameters = b.parameters
    /\ a.parent = b.parent

\* every system of the heap h is still in k, with nothing but its caches
\* possibly changed
Framed(h, k) ==
    /\ Len(h) <= Len(k)
    /\ \A r \in 1..Len(h) : SameSystem(h[r], k[r])

\* C15: a step of the constructor, an accessor, __getitem__, subsystem or
\* change_variables leaves every existing system as it was (caches
\* included) and a transformation that returns, returns an instance that
\* did not exist before; and on the system built last, extend_by_operation
\* (well-formed or malformed argument) and diff_resultant (any bound and
\* algorithm, returning or raising) leave the equations, their order, the
\* variables, the parameters and the parent of every existing system as
\* they were, the extension returned being another instance.
C15_NoInPlaceMutation ==
    /\ [][/\ Framed(heap, heap')
          /\ \A r \in 1..Len(heap) : heap'[r] = heap[r]
          /\ (last'.op \in BuildOps /\ last'.raised = "none")
                => (last'.ret = Len(heap) + 1 /\ Len(heap') = Len(heap) + 1)
          /\ (last'.op \notin BuildOps \/ last'.raised # "none")
                => heap' = heap]_vars
    /\ [](JustBuilt =>
          /\ \A kind \in {"list", "tuple", "other"} :
             \A Ls \in LsInputs(size(heap[Len(heap)])) :
                LET e == extend_by_operation(heap, Len(heap), kind, Ls)
                IN /\ Framed(heap, e.heap)
                   /\ e.raised = "none" => e.ret > Len(heap)
                   /\ e.raised # "none" => e.heap = heap
          /\ \A b \in -1..MaxBound : \A alg \in AlgInputs :
                Framed(heap, diff_resultant(heap, Len(heap), b, alg).heap))

\* subsystem returned a new system with fewer equations in another order
\* and other variables than its receiver, which is still in place
C15_Witness ==
    /\ last.op = "subsystem"
    /\ last.raised = "none"
    /\ last.ret = Len(heap)
    /\ last.self = Len(heap) - 1
    /\ heap[last.ret].variables # heap[last.self].variables
    /\ Len(heap[last.self].equations) = 2
    /\ heap[last.ret].equations
         = <<heap[last.self].equations[2], heap[last.self].equations[1]>>
    /\ heap[last.self].equations[1] # heap[last.self].equations[2]

\* the operator applied n times to the polynomial p
RECURSIVE OperatorTimes(_, _)
OperatorTimes(p, n) == IF n = 0 THEN p ELSE apply_operator(OperatorTimes(p, n - 1))

\* the place, counted from 1, that the index i (possibly negative, counted
\* from the end) designates among n equations
Position(n, i) == IF i < 0 THEN n + i + 1 ELSE i + 1

IsIntPair(index) ==
    /\ index.kind \in {"list", "tuple"}
    /\ Len(index.items) = 2
    /\ \A j \in 1..2 : index.items[j].kind = "int"

\* C16: equation(i) is the stored equation i and raises IndexError when i
\* is out of range; equation((i, n)) is the operator applied n times to
\* equation(i): it equals equation(i) when n = 0 and the operator applied
\* once to equation((i, n - 1)) otherwise, and it raises IndexError when i
\* is out of range.
C16_EquationExtendedIndex ==
    last.op = "equation" =>
       LET s == heap[last.self]
           n == size(s)
       IN /\ last.arg.kind = "int" =>
               IF in_range(n, last.arg.int)
               THEN /\ last.raised = "none"
                    /\ last.value = s.equations[Position(n, last.arg.int)]
               ELSE last.raised = "IndexError"
          /\ IsIntPair(last.arg) =>
               LET i == last.arg.items[1].int
                   k == last.arg.items[2].int
               IN IF in_range(n, i)
                  THEN /\ last.raised = "none"
                       /\ last.value = OperatorTimes(s.equations[Position(n, i)], k)
                       /\ equation(s, PyInt(i)).raised = "none"
                       /\ k = 0 => last.value = equation(s, PyInt(i)).value
                       /\ k > 0 => last.value = apply_operator(
                                      equation(s, PyTuple(<<PyInt(i), PyInt(k - 1)>>)).value)
                  ELSE /\ last.raised = "IndexError"
                       /\ equation(s, PyInt(i)).raised = "IndexError"

\* equation((0, 2)) returned the first equation with the operator applied
\* twice, which is another polynomial than the equation and than
\* equation((0, 1))
C16_Witness ==
    /\ last.op = "equation"
    /\ last.arg = PyTuple(<<PyInt(0), PyInt(2)>>)
    /\ last.raised = "none"
    /\ last.value = apply_operator(apply_operator(heap[last.self].equations[1]))
    /\ last.value # heap[last.self].equations[1]
    /\ last.value # apply_operator(heap[last.self].equations[1])

\* eqs[start:stop:step] for the slices [:], [::-1], [1:] and [:-1:2]
StandardSlice(eqs, sl) ==
    LET n == Len(eqs) IN
    IF sl = PySlice(NoValue, NoValue, NoValue) THEN eqs
    ELSE IF sl = PySlice(NoValue, NoValue, <<-1>>) THEN [j \in 1..n |-> eqs[n + 1 - j]]
    ELSE IF sl = PySlice(<<1>>, NoValue, NoValue) THEN [j \in 1..(n - 1) |-> eqs[j + 1]]
    ELSE [j \in 1..(n \div 2) |-> eqs[2 * j - 1]]

\* C17: equations(None) is the tuple of the stored equations;
\* equations(slice) is the standard slice of it; equations(i) for an
\* integer i is the one-element tuple of equation(i); equations of a list
\* or tuple is the tuple, of the same length, whose j-th entry is
\* equation(indices[j]) (raising what the first failing entry raises), so
\* the bare tuple (0, 1) gives the first two stored equations.
C17_EquationsByIndices ==
    last.op = "equations" =>
       LET s == heap[last.self]
           arg == last.arg
       IN /\ arg.kind = "None"
               => (last.raised = "none" /\ last.value = s.equations)
          /\ arg.kind = "slice"
               => (last.raised = "none" /\ last.value = StandardSlice(s.equations, arg))
          /\ arg.kind = "int"
               => /\ last.raised = equation(s, arg).raised
                  /\ last.raised = "none" => last.value = <<equation(s, arg).value>>
          /\ arg.kind \in {"list", "tuple"}
               => LET bad == {j \in 1..Len(arg.items) : equation(s, arg.items[j]).raised # "none"}
                  IN IF bad = {}
                     THEN /\ last.raised = "none"
                          /\ Len(last.value) = Len(arg.items)
                          /\ \A j \in 1..Len(arg.items) :
                                last.value[j] = equation(s, arg.items[j]).value
                     ELSE \E j \in bad :
                             /\ \A q \in bad : j <= q
                             /\ last.raised = equation(s, arg.items[j]).raised
          /\ (arg = PyTuple(<<PyInt(0), PyInt(1)>>) /\ size(s) >= 2)
               => last.value = <<s.equations[1], s.equations[2]>>

\* equations((0, 1)) returned the first two stored equations of a system
\* whose equation((0, 1)) is another polynomial than both
C17_Witness ==
    /\ last.op = "equations"
    /\ last.arg = PyTuple(<<PyInt(0), PyInt(1)>>)
    /\ last.raised = "none"
    /\ last.value = <<heap[last.self].equations[1], heap[last.self].equations[2]>>
    /\ apply_operator(heap[last.self].equations[1]) \notin Range(last.value)

\* C18: change_variables(V) raises what subsystem(None, V) raises and
\* otherwise returns the system subsystem(None, V) returns: the equations
\* of the receiver in the same order, its parent and the main variables V;
\* with V the variables of the receiver, the parameters are those of the
\* receiver too.
C18_ChangeVariablesIsSubsystem ==
    last.op = "change_variables" =>
       LET s == heap[last.self]
           V == last.variables.names
           sub == subsystem(s, PyNone, <<V>>)
       IN /\ last.raised = sub.raised
          /\ last.raised = "none" =>
                /\ heap[last.ret] = sub.obj[1]
                /\ heap[last.ret].equations = s.equations
                /\ heap[last.ret].parent = s.parent
                /\ heap[last.ret].variables = V
                /\ V = s.variables => heap[last.ret].parameters = s.parameters

\* change_variables(v) returned, on a system of two different equations
\* whose only main variable was u, a system with main variable v and
\* parameter u
C18_Witness ==
    /\ last.op = "change_variables"
    /\ last.raised = "none"
    /\ last.variables.names = <<"v">>
    /\ heap[last.self].variables = <<"u">>
    /\ heap[last.ret].variables = <<"v">>
    /\ heap[last.ret].parameters = <<"u">>
    /\ Len(heap[last.ret].equations) = 2
    /\ heap[last.ret].equations[1] # heap[last.ret].equations[2]

\* the system s is linear in the set S of variables
LinearIn(s, S) == \A i \in 1..size(s) : poly_is_linear(s.equations[i], S)

\* the non-empty sets of main variables of s in which s is linear and that
\* lie in no larger such set
MaximalLinearSets(s) ==
    LET linear == {S \in (SUBSET Range(s.variables)) \ {{}} : LinearIn(s, S)}
    IN {S \in linear : \A T \in linear : S \subseteq T => S = T}

\* C19: maximal_linear_variables() lists exactly the non-empty sets of main
\* variables in which the system is linear and that lie in no larger such
\* set: each once and without a repeated element, none inside another,
\* never the empty set, by non-increasing size.
C19_MaximalLinearVariables ==
    last.op = "maximal_linear_variables" =>
       LET s == heap[last.self]
           result == last.value
       IN /\ \A S \in SUBSET Range(s.variables) : \A T \in SUBSET S :
                LinearIn(s, S) => LinearIn(s, T)
          /\ {Range(result[j]) : j \in 1..Len(result)} = MaximalLinearSets(s)
          /\ Len(result) = Cardinality(MaximalLinearSets(s))
          /\ \A j \in 1..Len(result) :
                /\ result[j] # <<>>
                /\ Len(result[j]) = Cardinality(Range(result[j]))
                /\ \A q \in 1..Len(result) :
                      (q # j) => ~(Range(result[j]) \subseteq Range(result[q]))
                /\ \A q \in 1..Len(result) : j < q => Len(result[j]) >= Len(result[q])

\* two maximal linear sets were returned for a system that is linear in u
\* and in v but not in both
C19_Witness ==
    /\ last.op = "maximal_linear_variables"
    /\ Len(last.value) = 2
    /\ {Range(last.value[j]) : j \in 1..2} = {{"u"}, {"v"}}
    /\ ~LinearIn(heap[last.self], {"u", "v"})

\* the indexed variables occurring in some equation of s
Occurring(s) == UNION {variables_of(s.equations[i]) : i \in 1..size(s)}

\* the place of a family among the generators of the ring
GenIndex(gens, f) == CHOOSE i \in 1..Len(gens) : gens[i] = f

\* the order of the ring on indexed variables: a later generator first,
\* then by increasing index
Before(gens, a, b) ==
    IF a[1] = b[1] THEN a[2] < b[2] ELSE GenIndex(gens, a[1]) > GenIndex(gens, b[1])

\* C20: algebraic_variables() lists exactly the indexed variables that
\* occur in some equation and whose family is a main variable, each once,
\* in the order of the ring; no indexed variable of a parameter family is
\* in it; for the system {u_1 - u_0} with main variable u it is (u_0, u_1)
\* and for its extension by [1] it is (u_0, u_1, u_2).
C20_AlgebraicVariables ==
    last.op = "algebraic_variables" =>
       LET s == heap[last.self]
           result == last.value
       IN /\ Range(result) = {x \in Occurring(s) : x[1] \in Range(s.variables)}
          /\ Len(result) = Cardinality(Range(result))
          /\ \A j \in 1..Len(result) : \A q \in 1..Len(result) :
                j < q => Before(s.parent, result[j], result[q])
          /\ \A j \in 1..Len(result) : result[j][1] \notin Range(s.parameters)
          /\ (s.equations = <<Poly_u1_u0>> /\ "u" \in Range(s.variables)) =>
                /\ result = << <<"u", 0>>, <<"u", 1>> >>
                /\ LET e == extend_by_operation(heap, last.self, "list", <<Den>>)
                   IN /\ e.raised = "none"
                      /\ algebraic_variables(e.heap[e.ret])
                            = << <<"u", 0>>, <<"u", 1>>, <<"u", 2>> >>

\* the indexed variables of u were returned for a system in which indexed
\* variables of the parameter v occur too
C20_Witness ==
    /\ last.op = "algebraic_variables"
    /\ heap[last.self].variables = <<"u">>
    /\ Len(last.value) >= 1
    /\ \E x \in Occurring(heap[last.self]) : x[1] = "v"
    /\ \A j \in 1..Len(last.value) : last.value[j][1] = "u"

(***************************************************************************)
(* Properties of the iterative eliminator, read off the trace of the last  *)
(* diff_resultant call.                                                    *)
(***************************************************************************)
\* the trace entries of the last diff_resultant call
Trace == IF ResultantCalled THEN last.calls ELSE <<>>

\* the largest index of the family v in the equations of s, -1 when absent
OrderIn(s, v) ==
    LET ks == {x[2] : x \in {y \in Occurring(s) : y[1] = v}}
    IN IF ks = {} THEN -1 ELSE CHOOSE k \in ks : \A j \in ks : j <= k

\* the sequence vs without the name v
Without(vs, v) == SelectSeq(vs, LAMBDA x : x # v)

\* C21: when the multivariate case picks a family v that occurs in no
\* equation, no error is raised for it: the next thing the eliminator does
\* is call diff_resultant on a system with the same equations and the main
\* variables without v, and what that call returns or raises is the outcome.
C21_AbsentVariableDropped ==
    \A i \in 1..Len(Trace) :
       LET c == Trace[i] IN
       (c.kind = "choice" /\ OrderIn(c.caller, c.var) < 0) =>
          /\ i < Len(Trace)
          /\ Trace[i + 1].kind = "call"
          /\ Trace[i + 1].caller = c.caller
          /\ Trace[i + 1].system.equations = c.caller.equations
          /\ Trace[i + 1].system.variables = Without(c.caller.variables, c.var)

\* the indexed variables of the main families of the system s that occur
\* in the polynomial p
MainVariablesIn(s, p) == {x \in variables_of(p) : x[1] \in Range(s.variables)}

\* C22: a polynomial returned by the univariate phase contains no indexed
\* variable of a main family of the extended system the phase eliminated
\* from, and when such a variable is left in an equation after the loop,
\* the phase raises ValueError.
C22_NoMainVariableSurvives ==
    \A i \in 1..Len(Trace) :
       LET c == Trace[i] IN
       c.kind = "univariate" =>
          /\ c.raised = "none" => MainVariablesIn(c.system, c.value) = {}
          /\ (\E j \in 1..Len(c.left) : MainVariablesIn(c.system, c.left[j]) # {})
                => c.raised = "ValueError"

\* the largest index of the family v in the polynomial p, -1 when absent
OrderOf(p, v) ==
    LET ks == {x[2] : x \in {y \in variables_of(p) : y[1] = v}}
    IN IF ks = {} THEN -1 ELSE CHOOSE k \in ks : \A j \in ks : j <= k

\* the places in S of equations of s, by ascending order in v, a lower
\* place first among equal orders
RECURSIVE AscendingOrder(_, _, _)
AscendingOrder(s, v, S) ==
    IF S = {} THEN <<>>
    ELSE LET a == CHOOSE x \in S : \A y \in S \ {x} :
                     \/ OrderOf(s.equations[x], v) < OrderOf(s.equations[y], v)
                     \/ /\ OrderOf(s.equations[x], v) = OrderOf(s.equations[y], v)
                        /\ x < y
         IN <<a>> \o AscendingOrder(s, v, S \ {a})

\* the places of S in increasing order
RECURSIVE Increasing(_)
Increasing(S) ==
    IF S = {} THEN <<>>
    ELSE LET a == CHOOSE x \in S : \A y \in S : x <= y
         IN <<a>> \o Increasing(S \ {a})

\* the entries of the calls that the invocation of __iterative whose
\* opening entry (a choice or a linear stripping) is at place i makes
\* itself, in the phases named: those with its caller, up to the next
\* opening entry of that kind with that caller
OwnCalls(i, phases) ==
    LET c == Trace[i]
        again == {k \in (i + 1)..Len(Trace) :
                     Trace[k].kind = c.kind /\ Trace[k].caller = c.caller}
        stop == IF again = {} THEN Len(Trace) + 1
                ELSE CHOOSE k \in again : \A q \in again : k <= q
    IN SelectSeq([k \in 1..(stop - i - 1) |-> Trace[i + k]],
                 LAMBDA e : e.kind = "call" /\ e.caller = c.caller /\ e.phase \in phases)

\* C23: when the multivariate case picks a family v that occurs in the
\* system: with fewer than two equations containing v it raises ValueError;
\* otherwise the pivot is the equation of lowest order in v (lowest place
\* among equals), diff_resultant is called on {pivot, e} over the variables
\* [v] for each other equation e containing v, by ascending order in v,
\* and, these calls having returned, the next system is made of their
\* results followed by the equations without v in their original order,
\* over the main variables without v: size() - 1 equations.
C23_MultivariateStep ==
    \A i \in 1..Len(Trace) :
       LET c == Trace[i] IN
       (c.kind = "choice" /\ OrderIn(c.caller, c.var) >= 0) =>
          LET s == c.caller
              v == c.var
              holding == {k \in 1..size(s) : OrderOf(s.equations[k], v) >= 0}
              byorder == AscendingOrder(s, v, holding)
              rest == Increasing((1..size(s)) \ holding)
              subs == OwnCalls(i, {"multi-sub"})
              nexts == OwnCalls(i, {"multi-next"})
          IN IF Cardinality(holding) < 2
             THEN c.raised = "ValueError" /\ subs = <<>> /\ nexts = <<>>
             ELSE /\ c.raised = "none"
                  /\ Len(subs) <= Len(byorder) - 1
                  /\ \A j \in 1..Len(subs) :
                        /\ subs[j].system.equations
                             = <<s.equations[byorder[1]], s.equations[byorder[j + 1]]>>
                        /\ subs[j].system.variables = <<v>>
                        /\ subs[j].system.parent = s.parent
                        /\ j < Len(subs) => subs[j].raised = "none"
                  /\ IF Len(subs) = Len(byorder) - 1
                        /\ \A j \in 1..Len(subs) : subs[j].raised = "none"
                     THEN /\ Len(nexts) = 1
                          /\ nexts[1].system.equations
                               = [j \in 1..Len(subs) |-> subs[j].value]
                                   \o [j \in 1..Len(rest) |-> s.equations[rest[j]]]
                          /\ Len(nexts[1].system.equations) = size(s) - 1
                          /\ nexts[1].system.variables = Without(s.variables, v)
                          /\ nexts[1].system.parent = s.parent
                     ELSE nexts = <<>>

\* the family u was picked in a system of three equations whose second
\* equation has the lowest order in u and whose third does not contain u:
\* the resultant of the second and first equations was computed and the
\* next system was built
C23_Witness ==
    \E i \in 1..Len(Trace) :
       /\ Trace[i].kind = "choice"
       /\ Trace[i].var = "u"
       /\ size(Trace[i].caller) = 3
       /\ AscendingOrder(Trace[i].caller, "u", {1, 2}) = <<2, 1>>
       /\ OrderOf(Trace[i].caller.equations[3], "u") = -1
       /\ Len(OwnCalls(i, {"multi-sub"})) = 1
       /\ Len(OwnCalls(i, {"multi-next"})) = 1

\* the places in S of equations of s, by ascending number of monomials, a
\* lower place first among equal numbers
RECURSIVE FewestMonomialsFirst(_, _)
FewestMonomialsFirst(s, S) ==
    IF S = {} THEN <<>>
    ELSE LET a == CHOOSE x \in S : \A y \in S \ {x} :
                     \/ Cardinality(s.equations[x]) < Cardinality(s.equations[y])
                     \/ /\ Cardinality(s.equations[x]) = Cardinality(s.equations[y])
                        /\ x < y
         IN <<a>> \o FewestMonomialsFirst(s, S \ {a})

\* C24: when linear variables are stripped from a system with at least as
\* many equations as variables stripped, the set V_lin stripped is a maximal
\* linear subset of the largest size; the |V_lin| equations with the fewest
\* monomials (lower place among equals) are the base pivots; for each
\* remaining equation, in that ranking, diff_resultant is called on the
\* system [base pivots, that equation] over V_lin; and, these calls having
\* returned, the recursion continues on the system of their results, one
\* per remaining equation (size() - |V_lin| of them), over the main
\* variables outside V_lin.
C24_LinearStripping ==
    \A i \in 1..Len(Trace) :
       LET c == Trace[i] IN
       (c.kind = "linear" /\ size(c.caller) >= Len(c.vars)) =>
          LET s == c.caller
              ranked == FewestMonomialsFirst(s, 1..size(s))
              base == SubSeq(ranked, 1, Len(c.vars))
              remaining == SubSeq(ranked, Len(c.vars) + 1, Len(ranked))
              subs == OwnCalls(i, {"linear-sub"})
              nexts == OwnCalls(i, {"linear-next"})
          IN /\ Range(c.vars) \in MaximalLinearSets(s)
             /\ \A T \in MaximalLinearSets(s) : Cardinality(T) <= Len(c.vars)
             /\ Len(subs) <= Len(remaining)
             /\ \A j \in 1..Len(subs) :
                   /\ subs[j].system.equations
                        = [k \in 1..Len(base) |-> s.equations[base[k]]]
                            \o <<s.equations[remaining[j]]>>
                   /\ Range(subs[j].system.variables) = Range(c.vars)
                   /\ subs[j].system.parent = s.parent
                   /\ j < Len(subs) => subs[j].raised = "none"
             /\ IF Len(subs) = Len(remaining)
                   /\ \A j \in 1..Len(subs) : subs[j].raised = "none"
                THEN /\ Len(nexts) = 1
                     /\ nexts[1].system.equations = [j \in 1..Len(subs) |-> subs[j].value]
                     /\ Len(nexts[1].system.equations) = size(s) - Len(c.vars)
                     /\ nexts[1].system.variables
                          = SelectSeq(s.variables, LAMBDA x : x \notin Range(c.vars))
                     /\ nexts[1].system.parent = s.parent
                ELSE nexts = <<>>

\* v was stripped from a system of two equations in u and v whose second
\* equation has fewer monomials than the first: the second equation was the
\* base pivot, the resultant of [second, first] over v was computed and the
\* recursion went on with it over u
C24_Witness ==
    \E i \in 1..Len(Trace) :
       /\ Trace[i].kind = "linear"
       /\ Trace[i].vars = <<"v">>
       /\ Trace[i].caller.variables = <<"u", "v">>
       /\ FewestMonomialsFirst(Trace[i].caller, {1, 2}) = <<2, 1>>
       /\ Len(OwnCalls(i, {"linear-sub"})) = 1
       /\ Len(OwnCalls(i, {"linear-next"})) = 1
       /\ OwnCalls(i, {"linear-next"})[1].system.variables = <<"u">>

\* C25: in a computation started with alg_res = "iterative", the iterative
\* algorithm is used by the call and by every nested diff_resultant call,
\* each of which is made with alg_res = "iterative"; no linear stripping
\* takes place at any depth.
C25_ForcedIterativeEverywhere ==
    (ResultantComputed /\ last.alg = "iterative") =>
       /\ last.used = "iterative"
       /\ \A i \in 1..Len(Trace) :
             /\ Trace[i].kind # "linear"
             /\ Trace[i].kind = "call" =>
                   /\ Trace[i].alg = "iterative"
                   /\ Trace[i].used = "iterative"
                   /\ Trace[i].phase \in {"multi-sub", "multi-next"}

\* a computation forced to "iterative" made two nested calls, one of them
\* on a system that is linear in its variables, for which "auto" would
\* have chosen Macaulay
C25_Witness ==
    /\ ResultantComputed
    /\ last.alg = "iterative"
    /\ \E i \in 1..Len(Trace) : \E j \in 1..Len(Trace) :
          /\ i < j
          /\ Trace[i].kind = "call"
          /\ Trace[j].kind = "call"
          /\ LinearIn(Trace[i].system, Range(Trace[i].system.variables))
          /\ Trace[i].used = "iterative"

\* the total weight of a bound vector
Weight(L) == SeqSum(L)

\* C26: the extension search passes its candidates in non-decreasing order
\* of total weight, and the vector it returns has the smallest total
\* weight among the vectors with components in 0..bound-1 whose extension
\* satisfies SP2; it is the zero vector when the system itself satisfies
\* SP2 (and bound >= 1).
C26_SearchByWeight ==
    SearchRan =>
       LET self == heap[last.self]
           tried == last.ext.tried
           good(L) == Balanced(ExtensionEquations(self, L), Range(self.variables))
       IN /\ \A i \in 1..Len(tried) : \A j \in 1..Len(tried) :
                i < j => Weight(tried[i]) <= Weight(tried[j])
          /\ last.ext.raised = "none" =>
                /\ good(last.ext.L)
                /\ \A L \in VectorsBelow(self, last.bound) :
                      good(L) => Weight(last.ext.L) <= Weight(L)
                /\ (last.bound >= 1 /\ Balanced(self.equations, Range(self.variables)))
                      => \A k \in 1..Len(last.ext.L) : last.ext.L[k] = 0

\* the search returned a vector of positive total weight after trying at
\* least two others, although a heavier vector within the bound gives an
\* SP2 extension too
C26_Witness ==
    /\ SearchRan
    /\ last.ext.raised = "none"
    /\ Weight(last.ext.L) >= 1
    /\ Len(last.ext.tried) >= 3
    /\ \E L \in VectorsBelow(heap[last.self], last.bound) :
          /\ Weight(L) > Weight(last.ext.L)
          /\ Balanced(ExtensionEquations(heap[last.self], L),
                      Range(heap[last.self].variables))

\* the degree of the polynomial p in the indexed variable x
DegreeOf(p, x) ==
    LET es == {t[3] : t \in {y \in UNION p : y[1] = x[1] /\ y[2] = x[2]}}
    IN IF es = {} THEN 0 ELSE CHOOSE e \in es : \A d \in es : d <= e

\* the number of the equations eqs in which x has non-zero degree
Appearances(eqs, x) == Cardinality({j \in 1..Len(eqs) : DegreeOf(eqs[j], x) > 0})

\* C27: in each pass of the univariate loop, the variable eliminated is a
\* remaining algebraic variable that has non-zero degree in the fewest
\* remaining equations, the last such one in the list of variables, and the
\* pivot is the first remaining equation whose degree in that variable is
\* the least strictly positive one.
C27_LoopSelection ==
    \A i \in 1..Len(Trace) :
       LET c == Trace[i] IN
       c.kind = "loop" =>
          /\ \E k \in 1..Len(c.before) :
                /\ c.before[k] = c.var
                /\ c.after = SubSeq(c.before, 1, k - 1)
                               \o SubSeq(c.before, k + 1, Len(c.before))
                /\ \A q \in 1..Len(c.before) :
                      Appearances(c.equs, c.var) <= Appearances(c.equs, c.before[q])
                /\ \A q \in (k + 1)..Len(c.before) :
                      Appearances(c.equs, c.var) < Appearances(c.equs, c.before[q])
          /\ c.pivot # NoValue =>
                \E j \in 1..Len(c.equs) :
                   /\ c.pivot[1] = c.equs[j]
                   /\ DegreeOf(c.equs[j], c.var) > 0
                   /\ \A q \in 1..Len(c.equs) :
                         DegreeOf(c.equs[q], c.var) > 0
                            => DegreeOf(c.equs[j], c.var) <= DegreeOf(c.equs[q], c.var)
                   /\ \A q \in 1..(j - 1) :
                         DegreeOf(c.equs[q], c.var) # DegreeOf(c.equs[j], c.var)

\* a pass in which two variables occur in the fewest equations, the later
\* of them was eliminated, and the pivot was not the first equation
C27_Witness ==
    \E i \in 1..Len(Trace) :
       /\ Trace[i].kind = "loop"
       /\ Trace[i].pivot # NoValue
       /\ Trace[i].pivot[1] # Trace[i].equs[1]
       /\ \E k \in 1..Len(Trace[i].before) :
             /\ Trace[i].before[k] # Trace[i].var
             /\ Appearances(Trace[i].equs, Trace[i].before[k])
                  = Appearances(Trace[i].equs, Trace[i].var)
             /\ \E q \in (k + 1)..Len(Trace[i].before) : Trace[i].before[q] = Trace[i].var

RECURSIVE Power(_, _)
Power(b, e) == IF e = 0 THEN 1 ELSE b * Power(b, e - 1)

\* the sum, over the indexed variables of X, of the index raised to the
\* degree of the polynomial p in the variable
RECURSIVE IndexPowers(_, _)
IndexPowers(p, X) ==
    IF X = {} THEN 0
    ELSE LET x == CHOOSE y \in X : TRUE
         IN Power(x[2], DegreeOf(p, x)) + IndexPowers(p, X \ {x})

\* the heuristic weight of the family v in the system s
RECURSIVE FamilyWeight(_, _, _)
FamilyWeight(s, v, n) ==
    IF n = 0 THEN 0
    ELSE IndexPowers(s.equations[n], {x \in variables_of(s.equations[n]) : x[1] = v})
           + FamilyWeight(s, v, n - 1)

\* C28: the family picked by the multivariate case has the least heuristic
\* weight among the main variables, and is the first of them in the order
\* of variables to have it.
C28_BestVariable ==
    \A i \in 1..Len(Trace) :
       LET c == Trace[i] IN
       c.kind = "choice" =>
          LET s == c.caller
              w(v) == FamilyWeight(s, v, size(s))
          IN \E k \in 1..Len(s.variables) :
                /\ s.variables[k] = c.var
                /\ \A q \in 1..Len(s.variables) : w(c.var) <= w(s.variables[q])
                /\ \A q \in 1..(k - 1) : w(c.var) < w(s.variables[q])

\* u was picked, the first of the two variables, both of weight 1
C28_Witness ==
    \E i \in 1..Len(Trace) :
       /\ Trace[i].kind = "choice"
       /\ Trace[i].caller.variables = <<"u", "v">>
       /\ Trace[i].var = "u"
       /\ FamilyWeight(Trace[i].caller, "u", size(Trace[i].caller)) = 1
       /\ FamilyWeight(Trace[i].caller, "v", size(Trace[i].caller)) = 1

\* C29: in each pass of the univariate loop the variable selected has
\* strictly positive degree in at least one remaining equation, and a pivot
\* is found.
C29_PivotAlwaysExists ==
    \A i \in 1..Len(Trace) :
       Trace[i].kind = "loop" =>
          /\ Appearances(Trace[i].equs, Trace[i].var) >= 1
          /\ Trace[i].pivot # NoValue

\* C30: for every system alive that satisfies is_sp2(), the polynomial ring
\* of its algebraic_equations() has as many main generators as
\* algebraic_variables() has entries.
C30_Sp2CountsRingGenerators ==
    \A r \in 1..Len(heap) :
       is_sp2(heap[r]) =>
          Len(algebraic_equations(heap[r]).variables) = Len(algebraic_variables(heap[r]))

====
